---- MODULE Spec2Model ----
(***************************************************************************)
(* Model of libraries/AP_Math/SCurve.cpp: the jerk limited S-curve         *)
(* trajectory generator (segment table, path solver, segment builder,      *)
(* evaluator and track controller).                                        *)
(*                                                                         *)
(* Number representation.  The code computes in IEEE single precision.    *)
(* Here a float x is the integer round(x * Scale) (fixed point, four       *)
(* decimal digits).  Every arithmetic operation of the code is one         *)
(* operator below, applied in the order the code applies it, and rounds    *)
(* to the nearest representable number.  Equalities between computed       *)
(* quantities are therefore stated up to a stated tolerance; structural    *)
(* facts (indices, types, copies, comparisons of stored values) are exact. *)
(***************************************************************************)
EXTENDS Integers, Sequences, FiniteSets, TLC

\* ------------------------------------------------------------------------
\* Fixed point arithmetic
\* ------------------------------------------------------------------------

\* one unit (1.0f) in fixed point
Scale == 10 * 10 * 10 * 10

Abs(x) == IF x < 0 THEN -x ELSE x

Sgn(x) == IF x < 0 THEN -1 ELSE 1

\* MIN / MAX macros of AP_Math: (a < b ? a : b) and (a > b ? a : b)
MIN(a, b) == IF a < b THEN a ELSE b

MAX(a, b) == IF a > b THEN a ELSE b

\* product of two non-negative fixed point numbers, rounded to nearest;
\* the operands are split so that no intermediate exceeds the result's range
MulAbs(a, b) ==
    LET qa == a \div Scale
        ra == a % Scale
        qb == b \div Scale
        rb == b % Scale
    IN  qa * qb * Scale + qa * rb + ra * qb + (ra * rb + Scale \div 2) \div Scale

\* a * b
Mul(a, b) == Sgn(a) * Sgn(b) * MulAbs(Abs(a), Abs(b))

Mul3(a, b, c) == Mul(Mul(a, b), c)

Mul4(a, b, c, d) == Mul(Mul(Mul(a, b), c), d)

\* largest divisor b for which (a % b) * Scale is within the integers used
DivSplit == (2147483647 \div Scale) + 1

\* digits of r / b after the point, n = 10^k of them, last one rounded
RECURSIVE Frac(_, _, _)
Frac(r, b, n) ==
    IF n = 1 THEN (IF 2 * r >= b THEN 1 ELSE 0)
    ELSE LET t == r * 10
         IN  (t \div b) * (n \div 10) + Frac(t % b, b, n \div 10)

\* quotient of non-negative a by positive b, rounded to nearest
DivAbs(a, b) ==
    IF b < DivSplit
    THEN LET t == (a % b) * Scale
         IN  (a \div b) * Scale + (t \div b) + (IF 2 * (t % b) >= b THEN 1 ELSE 0)
    ELSE (a \div b) * Scale + Frac(a % b, b, Scale)

\* a / b  (b # 0)
Div(a, b) == Sgn(a) * Sgn(b) * DivAbs(Abs(a), Abs(b))

\* an integer constant n, and the rational constant n / d, as fixed point
Num(n) == n * Scale

Rat(n, d) == Div(Num(n), Num(d))

\* sq() of AP_Math
sq(x) == Mul(x, x)

\* largest representable argument of the root searches below
RootHi == 463 * Scale

\* parts per step of the root searches
SearchWays == 16

CbrtHi == 59 * Scale

\* y*y rounded up: the least z with y*y <= z exactly
SqUp(y) ==
    LET q == y \div Scale
        r == y % Scale
    IN  q * q * Scale + 2 * q * r + (r * r + Scale - 1) \div Scale

\* the square root of x > 0 rounded down, by a search that splits lo..hi in
\* SearchWays parts per step: the largest y whose exact square is <= x
RECURSIVE SqrtSearch(_, _, _)
SqrtSearch(x, lo, hi) ==
    IF lo >= hi THEN lo
    ELSE LET w == ((hi - lo) \div SearchWays) + 1
             k == CHOOSE j \in 0 .. SearchWays :
                     /\ (j = 0 \/ (lo + j * w <= hi /\ SqUp(lo + j * w) <= x))
                     /\ (lo + (j + 1) * w > hi \/ SqUp(lo + (j + 1) * w) > x)
         IN  SqrtSearch(x, lo + k * w, MIN(hi, lo + (k + 1) * w - 1))

\* safe_sqrt() of AP_Math: sqrtf, with 0 for a negative (NaN) result
safe_sqrt(x) == IF x <= 0 THEN 0 ELSE SqrtSearch(x, 0, RootHi)

\* the same search for the largest y with y*y*y <= x
RECURSIVE CbrtSearch(_, _, _)
CbrtSearch(x, lo, hi) ==
    IF lo >= hi THEN lo
    ELSE LET w == ((hi - lo) \div SearchWays) + 1
             cube(y) == Mul3(y, y, y)
             k == CHOOSE j \in 0 .. SearchWays :
                     /\ (j = 0 \/ (lo + j * w <= hi /\ cube(lo + j * w) <= x))
                     /\ (lo + (j + 1) * w > hi \/ cube(lo + (j + 1) * w) > x)
         IN  CbrtSearch(x, lo + k * w, MIN(hi, lo + (k + 1) * w - 1))

\* powf(x, 1.0f / 3.0f) for x >= 0.  (powf of a negative base is NaN; the
\* solver never passes one, and the model has no value for it.)
powf_third(x) == IF x >= 0 THEN CbrtSearch(x, 0, CbrtHi)
                 ELSE CHOOSE y \in {} : TRUE

\* M_PI
M_PI == 31416

\* odd Taylor polynomial to x^9 in Horner form, x2 = x*x
SinPoly(x, x2) ==
    Mul(x, Num(1) - Mul(Div(x2, Num(6)),
               Num(1) - Mul(Div(x2, Num(20)),
                   Num(1) - Mul(Div(x2, Num(42)),
                       Num(1) - Div(x2, Num(72))))))

\* sine of x in 0..pi/2
SinQ(x) == SinPoly(x, Mul(x, x))

\* sinf
RECURSIVE sinf(_)
sinf(x) ==
    IF x < 0 THEN -sinf(-x)
    ELSE IF x >= 2 * M_PI THEN sinf(x - 2 * M_PI)
    ELSE IF x > M_PI THEN -sinf(x - M_PI)
    ELSE IF x > M_PI \div 2 THEN SinQ(M_PI - x)
    ELSE SinQ(x)

\* cosf
cosf(x) == sinf(x + M_PI \div 2)

\* is_zero / is_positive / is_negative / is_equal of AP_Math compare with
\* FLT_EPSILON, which is below the resolution of the representation
is_zero(x) == x = 0

is_positive(x) == x > 0

is_negative(x) == x < 0

is_equal(a, b) == a = b

\* x * (n / d) for small positive integers n, d: one rounding
MulRat(x, n, d) == Sgn(x) * ((Abs(x) * n * 2 + d) \div (2 * d))

\* ------------------------------------------------------------------------
\* Segment table
\* ------------------------------------------------------------------------

\* segment indices (SEG_* defines) and array size (segments_max, SCurve.h)
SEG_INIT == 0

SEG_ACCEL_MAX == 4

SEG_ACCEL_END == 7

SEG_CHANGE_END == 14

SEG_CONST == 15

SEG_DECEL_END == 22

segments_max == 23

\* enum class SegmentType
CONSTANT_JERK == "CONSTANT_JERK"

POSITIVE_JERK == "POSITIVE_JERK"

NEGATIVE_JERK == "NEGATIVE_JERK"

Segment(T, ty, J, A, V, P) ==
    [end_time |-> T, seg_type |-> ty, jerk_ref |-> J,
     end_accel |-> A, end_vel |-> V, end_pos |-> P]

ZeroSegment == Segment(0, CONSTANT_JERK, 0, 0, 0, 0)

\* A build cursor: the table and the index the next segment is written to
\* (the uint8_t& index of the add_segment* functions).
Cursor(seg, idx) == [segment |-> seg, index |-> idx]

\* segment[index - 1] and segment[index] are entries of the array.  Every
\* call of the add_segment_*_jerk functions passes such an index; an access
\* outside the array has no defined result and the model has no value for it.
InTable(c) == c.index \in 1 .. (segments_max - 1)

OutOfTable == CHOOSE c \in {} : TRUE

\* add single S-Curve segment: write segment[index], then index++
add_segment(c, end_time, seg_type, jerk_ref, end_accel, end_vel, end_pos) ==
    Cursor([c.segment EXCEPT ![c.index] =
                Segment(end_time, seg_type, jerk_ref, end_accel, end_vel, end_pos)],
           c.index + 1)

\* the constant jerk segment that follows the entry prev
const_jerk_after(c, prev, tj, J0) ==
    add_segment(c,
                prev.end_time + tj,
                CONSTANT_JERK,
                J0,
                prev.end_accel + Mul(J0, tj),
                prev.end_vel + Mul(prev.end_accel, tj)
                    + Mul3(Num(1) \div 2, J0, sq(tj)),
                prev.end_pos + Mul(prev.end_vel, tj)
                    + Mul3(Num(1) \div 2, prev.end_accel, sq(tj))
                    + Mul3(Rat(1, 6), J0, Mul3(tj, tj, tj)))

\* generate constant jerk time segment
add_segment_const_jerk(c, tj, J0) ==
    IF InTable(c) THEN const_jerk_after(c, c.segment[c.index - 1], tj, J0)
    ELSE OutOfTable

\* the raised cosine constants shared by the jerk segments, for duration tj
\* and jerk magnitude Jm:  Beta = M_PI / tj, Alpha = Jm / 2,
\* AT = Alpha*tj, VT = Alpha*(tj^2/2 - 2/Beta^2),
\* PT = Alpha*((-1/Beta^2)*tj + (1/6)*tj^3)
JerkBeta(tj) == Div(M_PI, tj)

JerkAlpha(Jm) == Div(Jm, Num(2))

JerkAT(tj, Jm) == Mul(JerkAlpha(Jm), tj)

JerkVT(tj, Jm) ==
    Mul(JerkAlpha(Jm), Div(sq(tj), Num(2)) - Div(Num(2), sq(JerkBeta(tj))))

JerkPT(tj, Jm) ==
    Mul(JerkAlpha(Jm),
        Mul(Div(-Num(1), sq(JerkBeta(tj))), tj) + Mul(Rat(1, 6), Mul3(tj, tj, tj)))

\* the increasing jerk segment that follows the entry prev
incr_jerk_after(c, prev, tj, Jm, AT, VT, PT) ==
    add_segment(c,
                prev.end_time + tj,
                POSITIVE_JERK,
                Jm,
                prev.end_accel + AT,
                prev.end_vel + Mul(prev.end_accel, tj) + VT,
                prev.end_pos + Mul(prev.end_vel, tj)
                    + Mul3(Num(1) \div 2, prev.end_accel, sq(tj)) + PT)

\* generate increasing jerk magnitude time segment (raised cosine profile)
add_segment_incr_jerk(c, tj, Jm) ==
    IF InTable(c)
    THEN incr_jerk_after(c, c.segment[c.index - 1], tj, Jm,
                         JerkAT(tj, Jm), JerkVT(tj, Jm), JerkPT(tj, Jm))
    ELSE OutOfTable

\* P2T = Alpha*((-1/Beta^2)*2*tj + (4/3)*tj^3)
JerkP2T(tj, Jm) ==
    Mul(JerkAlpha(Jm), Mul3(Div(-Num(1), sq(JerkBeta(tj))), Num(2), tj)
                       + Mul(Rat(4, 3), Mul3(tj, tj, tj)))

\* fault variant of decr_jerk_after: the velocity term V2T left out
decr_jerk_after_no_v2t(c, prev, tj, Jm, AT, VT, PT, A2T, V2T, P2T) ==
    add_segment(c,
                prev.end_time + tj,
                NEGATIVE_JERK,
                Jm,
                (prev.end_accel - AT) + A2T,
                (prev.end_vel - VT) + Mul(prev.end_accel - AT, tj),
                (prev.end_pos - PT) + Mul(prev.end_vel - VT, tj)
                    + Mul3(Num(1) \div 2, prev.end_accel - AT, sq(tj)) + P2T)

\* the decreasing jerk segment that follows the entry prev;
\* A2T = Jm*tj, V2T = Jm*tj^2
decr_jerk_after(c, prev, tj, Jm, AT, VT, PT, A2T, V2T, P2T) ==
    add_segment(c,
                prev.end_time + tj,
                NEGATIVE_JERK,
                Jm,
                (prev.end_accel - AT) + A2T,
                (prev.end_vel - VT) + Mul(prev.end_accel - AT, tj) + V2T,
                (prev.end_pos - PT) + Mul(prev.end_vel - VT, tj)
                    + Mul3(Num(1) \div 2, prev.end_accel - AT, sq(tj)) + P2T)

\* generate decreasing jerk magnitude time segment (raised cosine profile)
add_segment_decr_jerk(c, tj, Jm) ==
    IF InTable(c)
    THEN decr_jerk_after(c, c.segment[c.index - 1], tj, Jm,
                         JerkAT(tj, Jm), JerkVT(tj, Jm), JerkPT(tj, Jm),
                         Mul(Jm, tj), Mul(Jm, sq(tj)), JerkP2T(tj, Jm))
    ELSE OutOfTable

\* fault variant of add_segments_jerk: the middle segment holds no jerk
add_segments_jerk_no_hold(c, tj, Jm, Tcj) ==
    add_segment_decr_jerk(
        add_segment_const_jerk(
            add_segment_incr_jerk(c, tj, Jm), Tcj, 0), tj, Jm)

\* generate three consecutive segments forming a jerk profile
add_segments_jerk(c, tj, Jm, Tcj) ==
    add_segment_decr_jerk(
        add_segment_const_jerk(
            add_segment_incr_jerk(c, tj, Jm), Tcj, Jm), tj, Jm)

\* ------------------------------------------------------------------------
\* Path solver
\* ------------------------------------------------------------------------

\* result of calculate_path: the four outputs, whether INTERNAL_ERROR
\* (invalid_arguments) was raised, and the "solution" number of the branch
\* taken as the code's comments number them (-1: none)
PathOut(Jm, t2, t4, t6, err, sol) ==
    [Jm_out |-> Jm, t2_out |-> t2, t4_out |-> t4, t6_out |-> t6,
     error |-> err, solution |-> sol]

\* the expression under safe_sqrt in both t4 formulas
PathRoot(tj, Jm, V0, Am, L) ==
    MulRat(Mul4(Am, Am, Am, Am), 1, 4)
    + Mul(Mul(Jm, Jm), Mul(V0, V0))
    + MulRat(Mul3(Mul(Am, Am), Mul(Jm, Jm), Mul(tj, tj)), 1, 4)
    + Mul3(Mul(Am, Mul(Jm, Jm)), L, Num(2))
    - Mul3(Mul(Am, Am), Jm, V0)
    + MulRat(Mul3(Mul3(Am, Am, Am), Jm, tj), 1, 2)
    - Mul3(Mul(Am, Mul(Jm, Jm)), V0, tj)

\* MIN(velocity limited time, MAX of the two roots of the distance equation)
PathT4Roots(tvel, head, root, tail, den) ==
    MIN(tvel, MAX(Div(head + root - tail, den), Div(head - root - tail, den)))

\* the constant acceleration duration shared by solutions 2 and 7
PathT4(tj, Jm, V0, Am, Vm, L) ==
    PathT4Roots(Div(-(V0 - Vm + Mul(Am, tj) + Div(Mul(Am, Am), Jm)), Am),
                -MulRat(Mul(Am, Am), 3, 2),
                safe_sqrt(PathRoot(tj, Jm, V0, Am, L)),
                Mul(Jm, V0) + MulRat(Mul3(Am, Jm, tj), 3, 2),
                Mul(Am, Jm))

\* solution 5, velocity bound: the larger root, s the square root in it
PathVelRoot(tj, Jm, s) ==
    MAX(-MulRat(Mul(Jm, tj + s), 1, 2), -MulRat(Mul(Jm, tj - s), 1, 2))

\* solution 5, distance bound: the terms of the cubic's root
PathP(tj, Jm, V0) ==
    MulRat(Mul(Mul(Jm, Jm), Mul(tj, tj)), 1, 9) - MulRat(Mul(Jm, V0), 2, 3)

PathMix(tj, Jm, V0) ==
    MulRat(Mul3(Jm, tj, Mul(Mul(Jm, Jm), Mul(tj, tj)) + Mul3(Jm, V0, Num(2))), 1, 3)

PathQ(tj, Jm, V0, L) ==
    -MulRat(Mul(Mul(Jm, Jm), L), 1, 2)
    + MulRat(Mul(Mul3(Jm, Jm, Jm), Mul3(tj, tj, tj)), 8, 27)
    - PathMix(tj, Jm, V0) + Mul3(Mul(Jm, Jm), V0, tj)

PathR(tj, Jm, V0, L) ==
    MulRat(Mul(Mul(Jm, Jm), L), 1, 2)
    - MulRat(Mul(Mul3(Jm, Jm, Jm), Mul3(tj, tj, tj)), 8, 27)
    + PathMix(tj, Jm, V0) - Mul3(Mul(Jm, Jm), V0, tj)

PathCube(p, q, r) ==
    powf_third(safe_sqrt(Mul(q, q) - Mul3(p, p, p)) + r)

PathDistRoot(tj, Jm, p, c) ==
    -MulRat(Mul(Jm, tj), 2, 3) + Div(Mul(p, Num(1)), c) + c

\* the acceleration of solution 5: MIN(MIN(Am, velocity root), distance root)
PathAm5(tj, Jm, V0, Am, Vm, L) ==
    MIN(MIN(Am,
            PathVelRoot(tj, Jm,
                        safe_sqrt(Div(-Mul(V0, Num(4)) + Mul(Vm, Num(4))
                                      + Mul(Jm, Mul(tj, tj)), Jm)))),
        PathDistRoot(tj, Jm, PathP(tj, Jm, V0),
                     PathCube(PathP(tj, Jm, V0), PathQ(tj, Jm, V0, L),
                              PathR(tj, Jm, V0, L))))

\* solutions 5 and 7 have equal first and last durations (t6_out = t2_out)
PathSym(Jm, t2, t4, sol) ==
    PathOut(Jm, t2, t4, t2, FALSE, sol)

\* the branch where the limited acceleration is not reached within the jerk
\* time: Jm is already Am / tj (solutions 0 and 2)
path_short(tj, Jm, V0, Am, Vm, L) ==
    IF (Vm <= V0 + Mul3(Num(2), Am, tj))
       \/ (L <= Mul3(Num(4), V0, tj) + Mul3(Num(4), Am, sq(tj)))
    THEN PathOut(Jm, 0, 0, 0, FALSE, 0)
    ELSE PathOut(Jm, 0, PathT4(tj, Jm, V0, Am, Vm, L), 0, FALSE, 2)

\* the branch where the limited acceleration is held (solutions 5 and 7)
path_long(tj, Jm, V0, Am, Vm, L) ==
    IF (Vm < V0 + Mul(Am, tj) + Div(Mul(Am, Am), Jm))
       \/ (L < Mul(Div(Num(1), Mul(Jm, Jm)),
                   Mul3(Am, Am, Am)
                   + Mul3(Am, Jm, Mul(V0, Num(2)) + Mul3(Am, tj, Num(2))))
               + Mul3(V0, tj, Num(2)) + Mul(Am, Mul(tj, tj)))
    THEN PathSym(Jm, Div(PathAm5(tj, Jm, V0, Am, Vm, L), Jm) - tj, 0, 5)
    ELSE PathSym(Jm, Div(Am, Jm) - tj, PathT4(tj, Jm, V0, Am, Vm, L), 7)

\* fault variant of path_limited: the jerk is not reduced to Am / tj when the
\* jerk time alone would exceed the limited acceleration
path_limited_full_jerk(tj, Jm, V0, Am, Vm, L) ==
    IF Abs(Am) < Mul(Jm, tj)
    THEN path_short(tj, Jm, V0, Am, Vm, L)
    ELSE path_long(tj, Jm, V0, Am, Vm, L)

\* calculate_path once Am has been limited by the velocity change and the
\* length
path_limited(tj, Jm, V0, Am, Vm, L) ==
    IF Abs(Am) < Mul(Jm, tj)
    THEN path_short(tj, Div(Am, tj), V0, Am, Vm, L)
    ELSE path_long(tj, Jm, V0, Am, Vm, L)

\* fault variant of calculate_path: no early return for V0 >= Vm
calculate_path_no_hold(tj, Jm, V0, Am, Vm, L) ==
    IF ~is_positive(tj) \/ ~is_positive(Jm) \/ ~is_positive(Am)
       \/ ~is_positive(Vm) \/ ~is_positive(L)
    THEN PathOut(0, 0, 0, 0, TRUE, -1)
    ELSE path_limited(tj, Jm, V0,
                      MIN(MIN(Am, Div(Vm - V0, Mul(Num(2), tj))),
                          Div(L + Mul3(Num(4), V0, tj), Mul(Num(4), sq(tj)))),
                      Vm, L)

\* calculate the segment times for the trigonometric S-Curve path
calculate_path(tj, Jm, V0, Am, Vm, L) ==
    IF ~is_positive(tj) \/ ~is_positive(Jm) \/ ~is_positive(Am)
       \/ ~is_positive(Vm) \/ ~is_positive(L)
    THEN PathOut(0, 0, 0, 0, TRUE, -1)
    ELSE IF V0 >= Vm
    THEN PathOut(0, 0, 0, 0, FALSE, -1)
    ELSE path_limited(tj, Jm, V0,
                      MIN(MIN(Am, Div(Vm - V0, Mul(Num(2), tj))),
                          Div(L + Mul3(Num(4), V0, tj), Mul(Num(4), sq(tj)))),
                      Vm, L)

\* ------------------------------------------------------------------------
\* Vectors (Vector3f as a triple) and the kinematic limit
\* ------------------------------------------------------------------------

VecZero == <<0, 0, 0>>

VecAdd(a, b) == <<a[1] + b[1], a[2] + b[2], a[3] + b[3]>>

VecSub(a, b) == <<a[1] - b[1], a[2] - b[2], a[3] - b[3]>>

VecScale(a, k) == <<Mul(a[1], k), Mul(a[2], k), Mul(a[3], k)>>

VecLength(a) == safe_sqrt(sq(a[1]) + sq(a[2]) + sq(a[3]))

VecNormalized(a) ==
    LET len == VecLength(a)
    IN  <<Div(a[1], len), Div(a[2], len), Div(a[3], len)>>

\* kinematic_limit() of AP_Math: the limit along direction given the
\* horizontal limit and the limits for positive and negative z
limit_sloped(d, xy_length, slope, mxy, mzp, mzn) ==
    IF is_positive(slope)
    THEN (IF Abs(slope) < Div(mzp, mxy) THEN Div(mxy, xy_length)
                                        ELSE Abs(Div(mzp, d[3])))
    ELSE (IF Abs(slope) < Div(mzn, mxy) THEN Div(mxy, xy_length)
                                        ELSE Abs(Div(mzn, d[3])))

limit_along(d, xy_length, mxy, mzp, mzn) ==
    IF is_zero(xy_length) THEN (IF is_positive(d[3]) THEN mzp ELSE mzn)
    ELSE IF is_zero(d[3]) THEN mxy
    ELSE IF is_zero(mxy) THEN 0
    ELSE limit_sloped(d, xy_length, Div(d[3], xy_length), mxy, mzp, mzn)

limit_unit(d, mxy, mzp, mzn) ==
    limit_along(d, safe_sqrt(sq(d[1]) + sq(d[2])), mxy, mzp, mzn)

kinematic_limit(direction, max_xy, max_z_pos, max_z_neg) ==
    IF is_zero(VecLength(direction)) THEN 0
    ELSE limit_unit(VecNormalized(direction),
                    Abs(max_xy), Abs(max_z_pos), Abs(max_z_neg))

\* ------------------------------------------------------------------------
\* The leg (one SCurve object)
\* ------------------------------------------------------------------------

SegIndex == 0 .. (segments_max - 1)

\* Fields of SCurve.  internal_error is the invalid_arguments bit of
\* AP_InternalError as raised by this object's calls of calculate_path.
\* Entries of segment at and above num_segs are never read by the code;
\* a constructed object holds zero entries there.
Leg(jt, jm, am, vm, t, n, seg, trk, du, ie) ==
    [jerk_time |-> jt, jerk_max |-> jm, accel_max |-> am, vel_max |-> vm,
     time |-> t, num_segs |-> n, segment |-> seg, track |-> trk,
     delta_unit |-> du, internal_error |-> ie]

\* the leg with the table and count of a build cursor
WithCursor(leg, c) == [leg EXCEPT !.segment = c.segment, !.num_segs = c.index]

\* raise INTERNAL_ERROR(invalid_arguments) if the solver result says so
WithError(leg, path) ==
    [leg EXCEPT !.internal_error = path.error \/ leg.internal_error]

\* fault variant of init: the zero segment is written but not counted
init_uncounted(leg) ==
    Leg(0, 0, 0, 0, 0, SEG_INIT,
        add_segment(Cursor(leg.segment, SEG_INIT), 0, CONSTANT_JERK, 0, 0, 0, 0).segment,
        VecZero, VecZero, leg.internal_error)

\* initialise and clear the path
init(leg) ==
    LET c == add_segment(Cursor(leg.segment, SEG_INIT), 0, CONSTANT_JERK, 0, 0, 0, 0)
    IN  Leg(0, 0, 0, 0, 0, c.index, c.segment, VecZero, VecZero, leg.internal_error)

\* the array segment[0 .. n] of a constructed object
RECURSIVE ZeroTable(_)
ZeroTable(n) ==
    IF n = 0 THEN (0 :> ZeroSegment) ELSE ZeroTable(n - 1) @@ (n :> ZeroSegment)

\* constructor
NewLeg ==
    init(Leg(0, 0, 0, 0, 0, 0, ZeroTable(segments_max - 1), VecZero, VecZero, FALSE))

\* the acceleration or deceleration ramp of seven segments from the cursor on:
\* jerk triplet (first, Tfirst), plateau t4, jerk triplet (-first, Tlast)
add_ramp(c, tj, Jfirst, Tfirst, t4, Tlast) ==
    add_segments_jerk(
        add_segment_const_jerk(
            add_segments_jerk(c, tj, Jfirst, Tfirst), t4, 0), tj, -Jfirst, Tlast)

\* the acceleration ramp of a solver result p:
\* add_segments_jerk(Jm, t2); add_segment_const_jerk(t4, 0); add_segments_jerk(-Jm, t6)
add_accel(c, tj, p) == add_ramp(c, tj, p.Jm_out, p.t2_out, p.t4_out, p.t6_out)

\* fault variant of add_decel: the jerk sign of the acceleration ramp kept
add_decel_unmirrored(c, tj, p) == add_ramp(c, tj, p.Jm_out, p.t6_out, p.t4_out, p.t2_out)

\* the deceleration ramp of a solver result p:
\* add_segments_jerk(-Jm, t6); add_segment_const_jerk(t4, 0); add_segments_jerk(Jm, t2)
add_decel(c, tj, p) == add_ramp(c, tj, -p.Jm_out, p.t6_out, p.t4_out, p.t2_out)

\* fault variant of add_empty: six calls
add_empty_six(c) ==
    add_segment_const_jerk(
        add_segment_const_jerk(
            add_segment_const_jerk(
                add_segment_const_jerk(
                    add_segment_const_jerk(
                        add_segment_const_jerk(c, 0, 0), 0, 0), 0, 0), 0, 0),
            0, 0), 0, 0)

\* "add empty speed adjust segments": seven calls
add_empty(c) ==
    add_segment_const_jerk(
        add_segment_const_jerk(
            add_segment_const_jerk(
                add_segment_const_jerk(
                    add_segment_const_jerk(
                        add_segment_const_jerk(
                            add_segment_const_jerk(c, 0, 0), 0, 0), 0, 0), 0, 0),
                0, 0), 0, 0), 0, 0)

\* fault variant of add_cruise: the cruise time of one half of the path only
\* (the factor 2 of t15 dropped)
add_cruise_half(c, L) ==
    add_segment_const_jerk(
        c,
        Div(Div(L, Num(2)) - c.segment[SEG_CHANGE_END].end_pos,
            c.segment[SEG_CHANGE_END].end_vel),
        0)

\* the constant speed segment of add_segments:
\* t15 = 2 * (L/2 - segment[SEG_CHANGE_END].end_pos) / segment[SEG_CHANGE_END].end_vel
add_cruise(c, L) ==
    add_segment_const_jerk(
        c,
        Div(Mul(Num(2), Div(L, Num(2)) - c.segment[SEG_CHANGE_END].end_pos),
            c.segment[SEG_CHANGE_END].end_vel),
        0)

\* add_segments from the cruise segment on, c being the cursor after the
\* change segments
add_path_cruise(c, tj, L, path) ==
    IF InTable(c) THEN add_decel(add_cruise(c, L), tj, path) ELSE OutOfTable

\* add_segments from the empty change segments on, c being the cursor after
\* the acceleration ramp
add_path_change(c, tj, L, path) ==
    IF InTable(c) THEN add_path_cruise(add_empty(c), tj, L, path) ELSE OutOfTable

\* add_segments after its calculate_path: acceleration ramp, seven empty
\* change segments, cruise segment, deceleration ramp
add_path_segments(leg, L, path) ==
    WithCursor(
        WithError(leg, path),
        add_path_change(
            add_accel(Cursor(leg.segment, leg.num_segs), leg.jerk_time, path),
            leg.jerk_time, L, path))

\* generate the segments for a path of length L
add_segments(leg, L) ==
    IF is_zero(L) THEN leg
    ELSE add_path_segments(leg, L,
                           calculate_path(leg.jerk_time, leg.jerk_max, 0,
                                          leg.accel_max, leg.vel_max, Div(L, Num(2))))

\* set speed and acceleration limits for the path
set_kinematic_limits(leg, origin, destination, speed_xy, speed_up, speed_down, accel_xy, accel_z) ==
    [leg EXCEPT
        !.vel_max = kinematic_limit(VecSub(destination, origin), Abs(speed_xy),
                                    Abs(speed_up), Abs(speed_down)),
        !.accel_max = kinematic_limit(VecSub(destination, origin), Abs(accel_xy),
                                      Abs(accel_z), Abs(accel_z))]

\* calculate_track from the track vector on: "avoid divide-by zeros. Path
\* will be left as a zero length path"
track_segments(leg, trk, track_length) ==
    IF is_zero(track_length)
    THEN [leg EXCEPT !.track = trk, !.delta_unit = VecZero]
    ELSE add_segments([leg EXCEPT !.track = trk, !.delta_unit = VecNormalized(trk)],
                      track_length)

\* calculate_track after set_kinematic_limits: "check for invalid arguments"
track_limited(leg, trk) ==
    IF ~is_positive(leg.jerk_time) \/ ~is_positive(leg.jerk_max)
       \/ ~is_positive(leg.accel_max) \/ ~is_positive(leg.vel_max)
    THEN leg
    ELSE track_segments(leg, trk, VecLength(trk))

\* generate a trigonometric track in 3D space that moves over a straight
\* line between two points defined by the origin and destination
calculate_track(leg, origin, destination, speed_xy, speed_up, speed_down, accel_xy, accel_z, jerk_time_sec, jerk_maximum) ==
    track_limited(
        set_kinematic_limits([init(leg) EXCEPT !.jerk_time = jerk_time_sec,
                                               !.jerk_max = jerk_maximum],
                             origin, destination, speed_xy, speed_up, speed_down,
                             accel_xy, accel_z),
        VecSub(destination, origin))

\* ------------------------------------------------------------------------
\* Queries
\* ------------------------------------------------------------------------

\* time at the end of the sequence
time_end(leg) ==
    IF leg.num_segs # segments_max THEN 0
    ELSE leg.segment[SEG_DECEL_END].end_time

\* fault variant of finished: the end time itself counts as finished
finished_at_end(leg) ==
    IF leg.num_segs # segments_max THEN TRUE
    ELSE leg.time >= time_end(leg)

\* time has reached the end of the sequence
finished(leg) ==
    IF leg.num_segs # segments_max THEN TRUE
    ELSE leg.time > time_end(leg)

\* fault variant of pos_end: the table is read without the num_segs test
pos_end_unguarded(leg) == leg.segment[SEG_DECEL_END].end_pos

\* magnitude of the position vector at the end of the sequence
pos_end(leg) ==
    IF leg.num_segs # segments_max THEN 0
    ELSE leg.segment[SEG_DECEL_END].end_pos

\* time left before sequence will complete
get_time_remaining(leg) ==
    IF leg.num_segs # segments_max THEN 0
    ELSE leg.segment[SEG_DECEL_END].end_time - leg.time

\* time when acceleration section of the sequence will complete
get_accel_finished_time(leg) ==
    IF leg.num_segs # segments_max THEN 0
    ELSE leg.segment[SEG_ACCEL_END].end_time

\* fault variant of braking: true from the end of the change phase
braking_from_cruise(leg) ==
    IF leg.num_segs # segments_max THEN TRUE
    ELSE leg.time >= leg.segment[SEG_CHANGE_END].end_time

\* return true if the sequence is braking to a stop
braking(leg) ==
    IF leg.num_segs # segments_max THEN TRUE
    ELSE leg.time >= leg.segment[SEG_CONST].end_time

\* ------------------------------------------------------------------------
\* Evaluator
\* ------------------------------------------------------------------------

Javp(J, A, V, P) == [Jt |-> J, At |-> A, Vt |-> V, Pt |-> P]

\* jerk, acceleration, velocity and position at time_now into a constant
\* jerk segment
calc_javp_for_segment_const_jerk(time_now, J0, A0, V0, P0) ==
    Javp(J0,
         A0 + Mul(J0, time_now),
         V0 + Mul(A0, time_now) + Mul3(Num(1) \div 2, J0, sq(time_now)),
         P0 + Mul(V0, time_now) + Mul3(Num(1) \div 2, A0, sq(time_now))
            + Mul3(Rat(1, 6), J0, Mul3(time_now, time_now, time_now)))

\* the raised cosine formula with Alpha = Jm / 2, Beta = M_PI / tj
incr_javp(time_now, Alpha, Beta, A0, V0, P0) ==
    Javp(Mul(Alpha, Num(1) - cosf(Mul(Beta, time_now))),
         A0 + Mul(Alpha, time_now)
            - Mul(Div(Alpha, Beta), sinf(Mul(Beta, time_now))),
         V0 + Mul(A0, time_now) + Mul(Div(Alpha, Num(2)), sq(time_now))
            + Mul(Div(Alpha, sq(Beta)), cosf(Mul(Beta, time_now)))
            - Div(Alpha, sq(Beta)),
         P0 + Mul(V0, time_now) + Mul3(Num(1) \div 2, A0, sq(time_now))
            + Mul(Div(-Alpha, sq(Beta)), time_now)
            + Div(Mul(Alpha, Mul3(time_now, time_now, time_now)), Num(6))
            + Mul(Div(Alpha, Mul3(Beta, Beta, Beta)), sinf(Mul(Beta, time_now))))

\* ... into an increasing jerk magnitude segment (raised cosine profile)
calc_javp_for_segment_incr_jerk(time_now, tj, Jm, A0, V0, P0) ==
    incr_javp(time_now, Div(Jm, Num(2)), Div(M_PI, tj), A0, V0, P0)

\* the raised cosine formula continued past its peak: tt = time_now + tj,
\* As = A0 - AT, Vs = V0 - VT, Ps = P0 - PT
decr_javp(time_now, tt, Alpha, Beta, As, Vs, Ps) ==
    Javp(Mul(Alpha, Num(1) - cosf(Mul(Beta, tt))),
         As + Mul(Alpha, tt) - Mul(Div(Alpha, Beta), sinf(Mul(Beta, tt))),
         Vs + Mul(As, time_now)
            + Mul3(Mul(Num(1) \div 2, Alpha), tt, tt)
            + Mul(Div(Alpha, sq(Beta)), cosf(Mul(Beta, tt)))
            - Div(Alpha, sq(Beta)),
         Ps + Mul(Vs, time_now)
            + Mul3(Num(1) \div 2, As, sq(time_now))
            + Mul(Div(-Alpha, sq(Beta)), tt)
            + Mul3(Mul(Div(Alpha, Num(6)), tt), tt, tt)
            + Mul(Div(Alpha, Mul3(Beta, Beta, Beta)), sinf(Mul(Beta, tt))))

\* ... into a decreasing jerk magnitude segment (raised cosine profile)
calc_javp_for_segment_decr_jerk(time_now, tj, Jm, A0, V0, P0) ==
    decr_javp(time_now, time_now + tj, Div(Jm, Num(2)), Div(M_PI, tj),
              A0 - JerkAT(tj, Jm), V0 - JerkVT(tj, Jm), P0 - JerkPT(tj, Jm))

\* the formula of a segment of the given type
calc_javp(Jtype, time_now, tj, Jm, A0, V0, P0) ==
    CASE Jtype = CONSTANT_JERK ->
            calc_javp_for_segment_const_jerk(time_now, Jm, A0, V0, P0)
      [] Jtype = POSITIVE_JERK ->
            calc_javp_for_segment_incr_jerk(time_now, tj, Jm, A0, V0, P0)
      [] Jtype = NEGATIVE_JERK ->
            calc_javp_for_segment_decr_jerk(time_now, tj, Jm, A0, V0, P0)

\* find active segment at time_now: the loop of update() over
\* i = 0 .. num_segs-1, which assigns pnt = num_segs-1-i whenever
\* time_now < segment[num_segs-1-i].end_time
\* Its result is the assignment of the last iteration whose condition
\* held, or the initial pnt = num_segs if none did.
active_segment(leg, time_now) ==
    LET hit == {i \in 0 .. (leg.num_segs - 1) :
                    time_now < leg.segment[leg.num_segs - 1 - i].end_time}
    IN  IF hit = {} THEN leg.num_segs
        ELSE leg.num_segs - 1 - (CHOOSE i \in hit : \A j \in hit : j <= i)

\* the state at time_now of the segment pnt, which starts at the entry s
update_within(leg, time_now, pnt, s) ==
    calc_javp(leg.segment[pnt].seg_type, time_now - s.end_time,
              leg.segment[pnt].end_time - s.end_time,
              leg.segment[pnt].jerk_ref, s.end_accel, s.end_vel, s.end_pos)

\* fault variant of update_outside: the stored end state of the entry s,
\* whatever the time
update_outside_held(time_now, s) ==
    Javp(0, s.end_accel, s.end_vel, s.end_pos)

\* the state at time_now outside the table, from the entry s with zero jerk
update_outside(time_now, s) ==
    calc_javp_for_segment_const_jerk(time_now - s.end_time, 0,
                                     s.end_accel, s.end_vel, s.end_pos)

\* update() with the active segment found
update_at(leg, time_now, pnt) ==
    IF pnt = 0 THEN update_outside(time_now, leg.segment[pnt])
    ELSE IF pnt = leg.num_segs THEN update_outside(time_now, leg.segment[pnt - 1])
    ELSE update_within(leg, time_now, pnt, leg.segment[pnt - 1])

\* calculate the jerk, acceleration, velocity and position at the provided time
update(leg, time_now) ==
    update_at(leg, time_now, active_segment(leg, time_now))

\* ------------------------------------------------------------------------
\* Stepping
\* ------------------------------------------------------------------------

\* the caller's accumulators
Pva(pos, vel, accel) == [pos |-> pos, vel |-> vel, accel |-> accel]

\* increment the internal time (SCurve.h)
advance_time(leg, dt) == [leg EXCEPT !.time = leg.time + dt]

\* the accumulators with the state u of update() added along delta_unit
add_javp(leg, pva, u) ==
    Pva(VecAdd(pva.pos, VecScale(leg.delta_unit, u.Pt)),
        VecAdd(pva.vel, VecScale(leg.delta_unit, u.Vt)),
        VecAdd(pva.accel, VecScale(leg.delta_unit, u.At)))

\* return the position, velocity and acceleration vectors relative to the
\* origin at a specified time along the path (added to the accumulators)
move_from_time_pos_vel_accel(leg, time_now, pva) ==
    add_javp(leg, pva, update(leg, time_now))

\* move_from_pos_vel_accel after advance_time
move_from_now(leg, pva) ==
    [leg |-> leg, pva |-> move_from_time_pos_vel_accel(leg, leg.time, pva)]

\* fault variant of move_from_pos_vel_accel: the time is not advanced
move_from_pos_vel_accel_in_place(leg, dt, pva) == move_from_now(leg, pva)

\* increment time pointer and return the position, velocity and
\* acceleration vectors relative to the origin: the leg and the accumulators
move_from_pos_vel_accel(leg, dt, pva) ==
    move_from_now(advance_time(leg, dt), pva)

\* move_to_pos_vel_accel after move_from_pos_vel_accel: pos -= track
move_to_track(r, track) ==
    [leg |-> r.leg, pva |-> [r.pva EXCEPT !.pos = VecSub(r.pva.pos, track)]]

\* fault variant of move_to_pos_vel_accel: the time is not advanced
move_to_pos_vel_accel_in_place(leg, dt, pva) ==
    move_to_track(move_from_now(leg, pva), leg.track)

\* ... relative to the destination
move_to_pos_vel_accel(leg, dt, pva) ==
    move_to_track(move_from_pos_vel_accel(leg, dt, pva), leg.track)

\* accessors of the leg (SCurve.h)
get_time_elapsed(leg) == leg.time

get_track(leg) == leg.track

get_speed_along_track(leg) == leg.vel_max

get_accel_along_track(leg) == leg.accel_max

\* Vector2f(v.x, v.y).length()
Vec2Length(v) == VecLength(<<v[1], v[2], 0>>)

\* what advance_target_along_track leaves behind: the three legs, the
\* caller's targets and the returned flag
Advanced(prev, this, next, pva, ret) ==
    [prev_leg |-> prev, leg |-> this, next_leg |-> next, pva |-> pva, ret |-> ret]

\* turn_pos, turn_vel and turn_accel: -get_track() and zero, moved along this
\* leg to half the remaining time ahead and along next_leg from its start
turn_pva(this, next, time_to_destination) ==
    move_from_time_pos_vel_accel(
        next, Div(time_to_destination, Num(2)),
        move_from_time_pos_vel_accel(
            this, get_time_elapsed(this) + Div(time_to_destination, Num(2)),
            Pva(VecSub(VecZero, get_track(this)), VecZero, VecZero)))

\* fault variant of turn_accepted: the corner's distance is not tested
turn_accepted_any_radius(this, next, wp_radius, turn) ==
    /\ get_time_remaining(this) < Div(time_end(next), Num(2))
    /\ Vec2Length(turn.vel)
           < MIN(get_speed_along_track(this), get_speed_along_track(next))
    /\ Vec2Length(turn.accel)
           < Mul(Num(2), MIN(get_accel_along_track(this),
                             get_accel_along_track(next)))

\* the inner test of the fast waypoint branch
turn_accepted(this, next, wp_radius, turn) ==
    /\ get_time_remaining(this) < Div(time_end(next), Num(2))
    /\ VecLength(turn.pos) < wp_radius
    /\ Vec2Length(turn.vel)
           < MIN(get_speed_along_track(this), get_speed_along_track(next))
    /\ Vec2Length(turn.accel)
           < Mul(Num(2), MIN(get_accel_along_track(this),
                             get_accel_along_track(next)))

\* next_leg.move_from_pos_vel_accel(dt, ...) of the fast waypoint branch
advance_blend(prev, this, r, s_finished) ==
    Advanced(prev, this, r.leg, r.pva, s_finished)

\* "check for change of leg on fast waypoint": the body of the first branch
advance_turn(prev, this, next, wp_radius, dt, pva) ==
    IF turn_accepted(this, next, wp_radius,
                     turn_pva(this, next, get_time_remaining(this)))
    THEN advance_blend(prev, this, move_from_pos_vel_accel(next, dt, pva),
                       finished(this))
    ELSE Advanced(prev, this, next, pva, finished(this))

\* fault variant of advance_started: no hand-over to next_leg
advance_started_no_handover(prev, this, r) ==
    Advanced(prev, this, r.leg, r.pva, finished(this))

\* the else-if branch: next_leg has started; r is its move
advance_started(prev, this, r) ==
    Advanced(prev, this, r.leg, r.pva,
             finished(this) \/ get_time_elapsed(r.leg) >= get_time_remaining(this))

\* fault variant of advance_legs: the corner is predicted again although
\* next_leg has started
advance_legs_predicting_again(prev, this, next, wp_radius, fast_waypoint, dt, pva) ==
    IF /\ fast_waypoint
       /\ braking(this)
       /\ get_time_remaining(this) <= get_accel_finished_time(next)
    THEN advance_turn(prev, this, next, wp_radius, dt, pva)
    ELSE IF ~is_zero(get_time_elapsed(next))
         THEN advance_started(prev, this, move_from_pos_vel_accel(next, dt, pva))
         ELSE Advanced(prev, this, next, pva, finished(this))

\* advance_target_along_track after the moves of prev_leg and of this leg
advance_legs(prev, this, next, wp_radius, fast_waypoint, dt, pva) ==
    IF /\ fast_waypoint
       /\ braking(this)
       /\ is_zero(get_time_elapsed(next))
       /\ get_time_remaining(this) <= get_accel_finished_time(next)
    THEN advance_turn(prev, this, next, wp_radius, dt, pva)
    ELSE IF ~is_zero(get_time_elapsed(next))
         THEN advance_started(prev, this, move_from_pos_vel_accel(next, dt, pva))
         ELSE Advanced(prev, this, next, pva, finished(this))

\* ... after the move of prev_leg; r is the move of this leg
advance_this(prev, r, next, wp_radius, fast_waypoint, dt) ==
    advance_legs(prev, r.leg, next, wp_radius, fast_waypoint, dt, r.pva)

\* ... r is the move of prev_leg
advance_prev(r, this, next, wp_radius, fast_waypoint, dt) ==
    advance_this(r.leg, move_from_pos_vel_accel(this, dt, r.pva), next,
                 wp_radius, fast_waypoint, dt)

\* move target location along path from origin to destination
advance_target_along_track(this, prev_leg, next_leg, wp_radius, fast_waypoint, dt, pva) ==
    advance_prev(move_to_pos_vel_accel(prev_leg, dt, pva), this, next_leg,
                 wp_radius, fast_waypoint, dt)

\* ------------------------------------------------------------------------
\* Speed retargeting
\* ------------------------------------------------------------------------

\* the loop that sets segments lo..hi to an empty constant jerk segment
\* ending at time T with zero acceleration, velocity V and position P
fill_segments(seg, lo, hi, T, V, P) ==
    [k \in DOMAIN seg |->
        IF lo <= k /\ k <= hi THEN Segment(T, CONSTANT_JERK, 0, 0, V, P) ELSE seg[k]]

\* ... with the end state of segment src of the same table
fill_from(seg, lo, hi, src) ==
    fill_segments(seg, lo, hi, seg[src].end_time, seg[src].end_vel, seg[src].end_pos)

\* the loop that adds t15 to end_time and dP to end_pos of segments lo..hi
shift_segments(seg, lo, hi, t15, dP) ==
    [k \in DOMAIN seg |->
        IF lo <= k /\ k <= hi
        THEN [seg[k] EXCEPT !.end_time = seg[k].end_time + t15,
                            !.end_pos = seg[k].end_pos + dP]
        ELSE seg[k]]

\* fault variant of retime_cruise: the times are shifted, the positions kept
retime_cruise_times_only(seg, target) ==
    shift_segments(seg, SEG_CONST, SEG_DECEL_END,
                   Div(target - seg[SEG_DECEL_END].end_pos, seg[SEG_CONST].end_vel), 0)

\* "add to constant velocity segment to end at the correct position":
\* dP = target - segment[SEG_DECEL_END].end_pos,
\* t15 = dP / segment[SEG_CONST].end_vel, added to segments SEG_CONST..SEG_DECEL_END
retime_cruise(seg, target) ==
    LET dP == target - seg[SEG_DECEL_END].end_pos
        t15 == Div(dP, seg[SEG_CONST].end_vel)
    IN  shift_segments(seg, SEG_CONST, SEG_DECEL_END, t15, dP)

\* the deceleration ramp of the solver result p written after an empty
\* cruise segment at the cursor c15, and the cruise re-timing to end at L
decel_retimed(leg, L, c15, p) ==
    [WithError(leg, p) EXCEPT !.segment =
        retime_cruise(add_decel(c15, leg.jerk_time, p).segment, L)]

\* set_origin_speed_max from its second calculate_path on, the table being
\* seg: the deceleration ramp and the cruise re-timing
origin_decel(leg, Vm, L, seg) ==
    decel_retimed(leg, L,
                  add_segment_const_jerk(Cursor(seg, SEG_CONST), 0, 0),
                  calculate_path(leg.jerk_time, leg.jerk_max, 0, leg.accel_max, Vm,
                                 L - seg[SEG_CONST].end_pos))

\* set_origin_speed_max after its first calculate_path (result p1): the
\* INIT segment at the new speed, the acceleration ramp, the empty change
\* segments, then the rest
origin_accel(leg, Vm, L, speed, p1) ==
    origin_decel(
        WithError(leg, p1), Vm, L,
        fill_from(add_accel(add_segment(Cursor(leg.segment, SEG_INIT),
                                        0, CONSTANT_JERK, 0, 0, speed, 0),
                            leg.jerk_time, p1).segment,
                  SEG_ACCEL_END + 1, SEG_CHANGE_END, SEG_ACCEL_END))

\* set_origin_speed_max with Vm, L and the limited speed read
origin_speed(leg, Vm, L, speed) ==
    [leg |-> origin_accel(leg, Vm, L, speed,
                          calculate_path(leg.jerk_time, leg.jerk_max, speed,
                                         leg.accel_max, Vm, Div(L, Num(2)))),
     ret |-> speed]

\* fault variant of set_origin_speed_max: the speed is not limited to Vm
set_origin_speed_max_unlimited(leg, speed_in) ==
    IF leg.num_segs # segments_max THEN [leg |-> leg, ret |-> 0]
    ELSE IF is_equal(leg.segment[SEG_INIT].end_vel, speed_in)
    THEN [leg |-> leg, ret |-> speed_in]
    ELSE origin_speed(leg, leg.segment[SEG_ACCEL_END].end_vel,
                      leg.segment[SEG_DECEL_END].end_pos, speed_in)

\* set the maximum vehicle speed at the origin; returns the leg and the
\* expected speed at the origin
set_origin_speed_max(leg, speed_in) ==
    IF leg.num_segs # segments_max THEN [leg |-> leg, ret |-> 0]
    ELSE IF is_equal(leg.segment[SEG_INIT].end_vel, speed_in)
    THEN [leg |-> leg, ret |-> speed_in]
    ELSE origin_speed(leg, leg.segment[SEG_ACCEL_END].end_vel,
                      leg.segment[SEG_DECEL_END].end_pos,
                      MIN(speed_in, leg.segment[SEG_ACCEL_END].end_vel))

\* set_destination_speed_max with Vm, L and the limited speed read
destination_speed(leg, Vm, L, speed) ==
    decel_retimed(leg, L,
                  add_segment_const_jerk(Cursor(leg.segment, SEG_CONST), 0, 0),
                  calculate_path(leg.jerk_time, leg.jerk_max, speed, leg.accel_max,
                                 Vm, Div(L, Num(2))))

\* set the maximum vehicle speed at the destination
set_destination_speed_max(leg, speed_in) ==
    IF leg.num_segs # segments_max THEN leg
    ELSE IF is_equal(leg.segment[segments_max - 1].end_vel, speed_in) THEN leg
    ELSE destination_speed(leg, leg.segment[SEG_CONST].end_vel,
                           leg.segment[SEG_DECEL_END].end_pos,
                           MIN(speed_in, leg.segment[SEG_CONST].end_vel))

\* fault variant of speed_restart: the path is built for half the distance
speed_restart_half(leg, Pend, Vend) ==
    set_destination_speed_max(
        set_origin_speed_max(
            add_segments(
                WithCursor(leg, add_segment(Cursor(leg.segment, SEG_INIT),
                                            0, CONSTANT_JERK, 0, 0, 0, 0)),
                Div(Pend, Num(2))),
            MIN(leg.vel_max, leg.segment[SEG_INIT].end_vel)).leg,
        Vend)

\* set_speed_max, "Path has not started": recompute the whole path
speed_restart(leg, Pend, Vend) ==
    set_destination_speed_max(
        set_origin_speed_max(
            add_segments(
                WithCursor(leg, add_segment(Cursor(leg.segment, SEG_INIT),
                                            0, CONSTANT_JERK, 0, 0, 0, 0)),
                Pend),
            MIN(leg.vel_max, leg.segment[SEG_INIT].end_vel)).leg,
        Vend)

\* the loop "move change segments to acceleration segments":
\* segment[k] = segment[k+7] for k = lo..hi
move_segments(seg, lo, hi) ==
    [k \in DOMAIN seg |-> IF lo <= k /\ k <= hi THEN seg[k + 7] ELSE seg[k]]

\* fault variant of shift_to_now: the position of the INIT segment is kept
shift_to_now_stale(leg, s0, u) ==
    fill_segments(s0, SEG_INIT + 1, SEG_CHANGE_END, leg.time, u.Vt,
                  s0[SEG_INIT].end_pos)

\* set_speed_max, "In the constant speed phase": segments INIT+1..CHANGE_END
\* become the state u of update() at the current time
shift_to_now(leg, s0, u) ==
    fill_segments(s0, SEG_INIT + 1, SEG_CHANGE_END, leg.time, u.Vt, u.Pt)

\* ... the table s0 having the end of the change phase as INIT segment
shift_from_change(leg, s0) ==
    shift_to_now(leg, s0, update([leg EXCEPT !.segment = s0], leg.time))

\* set_speed_max, "In the change speed phase" / "In the constant speed
\* phase": move the adjust phase to the acceleration phase
speed_shift(leg) ==
    LET seg == leg.segment
        t == leg.time
    IN  IF t >= seg[SEG_ACCEL_END].end_time /\ t <= seg[SEG_CHANGE_END].end_time
        THEN fill_from(
                move_segments(
                    [seg EXCEPT ![SEG_INIT] =
                        Segment(seg[SEG_ACCEL_END].end_time, CONSTANT_JERK, 0,
                                seg[SEG_ACCEL_END].end_accel,
                                seg[SEG_ACCEL_END].end_vel,
                                seg[SEG_ACCEL_END].end_pos)],
                    SEG_INIT + 1, SEG_ACCEL_END),
                SEG_ACCEL_END + 1, SEG_CHANGE_END, SEG_ACCEL_END)
        ELSE IF t >= seg[SEG_CHANGE_END].end_time /\ t <= seg[SEG_CONST].end_time
        THEN shift_from_change(
                leg,
                [seg EXCEPT ![SEG_INIT] =
                    Segment(seg[SEG_CHANGE_END].end_time, CONSTANT_JERK, 0, 0,
                            seg[SEG_CHANGE_END].end_vel,
                            seg[SEG_CHANGE_END].end_pos)])
        ELSE seg

\* "Adjust the INIT and ACCEL segments for new speed" with both solver
\* results: acceleration ramp of p1, empty segments to SEG_CONST,
\* deceleration ramp of p2, cruise re-timing
adjust_accel_paths(leg, Pend, p1, p2) ==
    WithError(
        WithError(
            [leg EXCEPT !.segment =
                retime_cruise(
                    add_decel(
                        Cursor(fill_from(add_accel(Cursor(leg.segment, SEG_INIT + 1),
                                                   leg.jerk_time, p1).segment,
                                         SEG_ACCEL_END + 1, SEG_CONST, SEG_ACCEL_END),
                               SEG_CONST + 1),
                        leg.jerk_time, p2).segment,
                    Pend)],
            p1),
        p2)

\* ... with the start speed and the speed to reach
adjust_accel_to(leg, Pend, Vstart, Vtop) ==
    adjust_accel_paths(
        leg, Pend,
        calculate_path(leg.jerk_time, leg.jerk_max, Vstart, leg.accel_max, Vtop,
                       Div(Pend, Num(2))),
        calculate_path(leg.jerk_time, leg.jerk_max, 0, leg.accel_max, Vtop,
                       Div(Pend, Num(2))))

\* set_speed_max, "Adjust the INIT and ACCEL segments for new speed"
speed_adjust_accel(leg, Pend) ==
    LET seg == leg.segment
        t == leg.time
    IN  IF (t <= seg[SEG_ACCEL_MAX].end_time)
           /\ is_positive(seg[SEG_ACCEL_MAX].end_time - seg[SEG_ACCEL_MAX - 1].end_time)
           /\ (leg.vel_max < seg[SEG_ACCEL_END].end_vel)
           /\ is_positive(seg[SEG_ACCEL_MAX].end_accel)
        THEN adjust_accel_to(
                leg, Pend, seg[SEG_INIT].end_vel,
                MAX(seg[SEG_ACCEL_END].end_vel
                    - Mul(seg[SEG_ACCEL_MAX].end_accel,
                          seg[SEG_ACCEL_MAX].end_time
                          - MAX(t, seg[SEG_ACCEL_MAX - 1].end_time)),
                    leg.vel_max))
        ELSE leg

\* fault variant of swap_path: the jerk of the solver result is not negated
swap_path_same_sign(p) ==
    PathOut(p.Jm_out, p.t6_out, p.t4_out, p.t2_out, p.error, p.solution)

\* a solver result received as (Jm, t6, t4, t2) with Jm negated: the call
\* of calculate_path for a decrease of speed
swap_path(p) ==
    PathOut(-p.Jm_out, p.t6_out, p.t4_out, p.t2_out, p.error, p.solution)

\* set_speed_max, "Adjust the CHANGE segments for new speed": the change
\* ramp of the solver result p, if it has one (Jm = t2 = t4 = t6 = 0 if not)
add_change(leg, p) ==
    IF ~is_zero(p.Jm_out) /\ ~is_negative(p.t2_out)
       /\ ~is_negative(p.t4_out) /\ ~is_negative(p.t6_out)
    THEN WithError([leg EXCEPT !.segment =
                        add_accel(Cursor(leg.segment, SEG_ACCEL_END + 1),
                                  leg.jerk_time, p).segment],
                   p)
    ELSE WithError(leg, p)

\* the solver result for the change of speed from Va = the speed at the end
\* of the acceleration phase over the distance L to the cruise segment's end
change_path(leg, Va, L) ==
    IF (leg.vel_max < Va) /\ (Mul(leg.jerk_time, Num(12)) < Div(L, Va))
    THEN swap_path(calculate_path(leg.jerk_time, leg.jerk_max, leg.vel_max,
                                  leg.accel_max, Va, Div(L, Num(2))))
    ELSE IF (leg.vel_max > Va) /\ (Div(L, Mul(leg.jerk_time, Num(12))) > Va)
    THEN calculate_path(leg.jerk_time, leg.jerk_max, Va, leg.accel_max,
                        MIN(leg.vel_max, Div(L, Mul(leg.jerk_time, Num(12)))),
                        Div(L, Num(2)))
    ELSE PathOut(0, 0, 0, 0, FALSE, -1)

\* the change segments emptied: copies of the end of the acceleration phase
empty_change(leg) ==
    [leg EXCEPT !.segment = fill_from(leg.segment, SEG_ACCEL_END + 1,
                                      SEG_CHANGE_END, SEG_ACCEL_END)]

\* set_speed_max, "Adjust the CHANGE segments for new speed"
speed_adjust_change(leg) ==
    IF is_equal(leg.vel_max, leg.segment[SEG_ACCEL_END].end_vel)
    THEN empty_change(leg)
    ELSE add_change(empty_change(leg),
                    change_path(leg, leg.segment[SEG_ACCEL_END].end_vel,
                                leg.segment[SEG_CONST].end_pos
                                - leg.segment[SEG_ACCEL_END].end_pos))

\* "add deceleration segments" with the limited end speed and the cursor
\* c15 after the empty cruise segment
decel_from(leg, Pend, Vend, c15) ==
    IF Vend < leg.segment[SEG_CHANGE_END].end_vel
    THEN decel_retimed(leg, Pend, c15,
                       calculate_path(leg.jerk_time, leg.jerk_max, Vend,
                                      leg.accel_max,
                                      c15.segment[SEG_CONST].end_vel,
                                      Pend - c15.segment[SEG_CONST].end_pos))
    ELSE [leg EXCEPT !.segment =
              retime_cruise(fill_from(c15.segment, SEG_CONST + 1, SEG_DECEL_END,
                                      SEG_CONST),
                            Pend)]

\* set_speed_max, "add deceleration segments" and the final cruise re-timing
speed_add_decel(leg, Pend, Vend_in) ==
    decel_from(leg, Pend, MIN(Vend_in, leg.segment[SEG_CHANGE_END].end_vel),
               add_segment_const_jerk(Cursor(leg.segment, SEG_CONST), 0, 0))

\* set_speed_max on a started, built leg before its deceleration
speed_replan(leg, Pend, Vend) ==
    IF is_zero(leg.time) THEN speed_restart(leg, Pend, Vend)
    ELSE speed_add_decel(
            speed_adjust_change(
                speed_adjust_accel([leg EXCEPT !.segment = speed_shift(leg)], Pend)),
            Pend, Vend)

\* fault variant of speed_changed: a braking leg is planned again
speed_changed_while_braking(leg) ==
    IF leg.num_segs # segments_max THEN leg
    ELSE speed_replan(leg, leg.segment[SEG_DECEL_END].end_pos,
                      MIN(leg.vel_max, leg.segment[SEG_DECEL_END].end_vel))

\* set_speed_max after vel_max = track_speed_max
speed_changed(leg) ==
    IF leg.num_segs # segments_max THEN leg
    ELSE IF leg.time >= leg.segment[SEG_CONST].end_time THEN leg
    ELSE speed_replan(leg, leg.segment[SEG_DECEL_END].end_pos,
                      MIN(leg.vel_max, leg.segment[SEG_DECEL_END].end_vel))

\* fault variant of speed_limited: an equal speed is planned again
speed_limited_replanning(leg, track_speed_max) ==
    IF is_zero(leg.vel_max) \/ is_zero(track_speed_max) THEN leg
    ELSE speed_changed([leg EXCEPT !.vel_max = track_speed_max])

\* set_speed_max with the new limit along the track
speed_limited(leg, track_speed_max) ==
    IF is_equal(leg.vel_max, track_speed_max) THEN leg
    ELSE IF is_zero(leg.vel_max) \/ is_zero(track_speed_max) THEN leg
    ELSE speed_changed([leg EXCEPT !.vel_max = track_speed_max])

\* set maximum velocity and re-calculate the path using these limits
set_speed_max(leg, speed_xy, speed_up, speed_down) ==
    speed_limited(leg, kinematic_limit(leg.delta_unit, speed_xy, speed_up,
                                       Abs(speed_down)))

\* ------------------------------------------------------------------------
\* The state machine: one leg driven by its public operations
\* ------------------------------------------------------------------------

VARIABLES
    leg,    \* the SCurve object
    out,    \* the last operation: its name, arguments and results
    ops,    \* number of operations called on the object
    path,   \* a direct call of the path solver: its inputs and outputs
    prev_leg,   \* the leg before this one, as advance_target_along_track takes it
    next_leg    \* the leg after this one

vars == <<leg, out, ops, path, prev_leg, next_leg>>

\* operations explored on one object
MaxOps == 3

\* inputs of calculate_track:
\* <<origin, destination, speed_xy, speed_up, speed_down, accel_xy, accel_z,
\*   jerk_time_sec, jerk_maximum>>
Origins == {VecZero}

Destinations == {<<Num(3), 0, 0>>, <<Num(12), 0, 0>>, <<0, Num(3), Num(4)>>}

SpeedsXY == {Num(2)}

SpeedsUp == {Num(1)}

SpeedsDown == {-Num(1)}

AccelsXY == {Num(1), Num(3)}

AccelsZ == {Num(1)}

JerkTimes == {Num(1) \div 2}

JerkMaxima == {Num(1), Num(3)}

\* the tuple above with the given destination, speed, accelerations and jerk
TrackInput(d, sxy, axy, az, jt, jm) ==
    <<VecZero, d, sxy, Num(1), -Num(1), axy, az, jt, jm>>

\* inputs of a leg that cannot be built: zero length, and each limit zero
DegenerateInputs ==
    {TrackInput(VecZero, Num(2), Num(3), Num(1), Num(1) \div 2, Num(3)),
     TrackInput(<<Num(3), 0, 0>>, 0, Num(3), Num(1), Num(1) \div 2, Num(3)),
     TrackInput(<<Num(3), 0, 0>>, Num(2), 0, 0, Num(1) \div 2, Num(3)),
     TrackInput(<<Num(3), 0, 0>>, Num(2), Num(3), Num(1), 0, Num(3)),
     TrackInput(<<Num(3), 0, 0>>, Num(2), Num(3), Num(1), Num(1) \div 2, 0)}

TrackInputs ==
    (Origins \X Destinations \X SpeedsXY \X SpeedsUp \X SpeedsDown
        \X AccelsXY \X AccelsZ \X JerkTimes \X JerkMaxima)
    \cup DegenerateInputs

\* inputs with which an object that holds a leg already is built again
RebuildInputs ==
    {TrackInput(<<Num(3), 0, 0>>, Num(2), Num(3), Num(1), Num(1) \div 2, Num(3)),
     TrackInput(VecZero, Num(2), Num(3), Num(1), Num(1) \div 2, Num(3))}

\* inputs of the speed setters and of stepping
NewSpeedsXY == {0, Num(1), Num(2), Num(4)}

EndSpeeds == {0, Num(1), Num(3)}

TimeSteps == {Num(1), Num(3)}

\* accumulator values handed to move_from_pos_vel_accel
StartPva == {Pva(<<Num(1), Num(2), Num(3)>>, <<Num(1), 0, 0>>, <<0, Num(1), 0>>)}

NoOut == [op |-> "none", arg |-> <<>>, ret |-> <<>>]

NoPath == [in |-> <<>>, out |-> <<>>]

Init ==
    /\ leg = NewLeg
    /\ out = NoOut
    /\ ops = 0
    /\ path = NoPath
    /\ prev_leg = NewLeg
    /\ next_leg = NewLeg

\* the effect of one call on the object: its new value and the record of
\* the call
Call(name, args, after, rets) ==
    /\ leg' = after
    /\ out' = [op |-> name, arg |-> args, ret |-> rets]
    /\ ops' = ops + 1
    /\ UNCHANGED <<path, prev_leg, next_leg>>

\* a call whose result r holds the object and one returned value
CallReturning(name, args, r, field) ==
    Call(name, args, r.leg, <<r[field]>>)

CalculateTrack ==
    \E in \in TrackInputs :
        /\ ops < MaxOps
        /\ ops = 0 \/ in \in RebuildInputs
        /\ Call("calculate_track", in,
                calculate_track(leg, in[1], in[2], in[3], in[4], in[5],
                                in[6], in[7], in[8], in[9]),
                <<>>)

SetSpeedMax ==
    \E sxy \in NewSpeedsXY, su \in SpeedsUp, sd \in SpeedsDown :
        /\ ops < MaxOps
        /\ Call("set_speed_max", <<sxy, su, sd>>,
                set_speed_max(leg, sxy, su, sd), <<>>)

SetOriginSpeedMax ==
    \E speed \in EndSpeeds :
        /\ ops < MaxOps
        /\ CallReturning("set_origin_speed_max", <<speed>>,
                         set_origin_speed_max(leg, speed), "ret")

SetDestinationSpeedMax ==
    \E speed \in EndSpeeds :
        /\ ops < MaxOps
        /\ Call("set_destination_speed_max", <<speed>>,
                set_destination_speed_max(leg, speed), <<>>)

MoveFromPosVelAccel ==
    \E dt \in TimeSteps, pva \in StartPva :
        /\ ops < MaxOps
        /\ CallReturning("move_from_pos_vel_accel", <<dt, pva>>,
                         move_from_pos_vel_accel(leg, dt, pva), "pva")

Next ==
    \/ CalculateTrack
    \/ SetSpeedMax
    \/ SetOriginSpeedMax
    \/ SetDestinationSpeedMax
    \/ MoveFromPosVelAccel

Spec == Init /\ [][Next]_vars

\* ------------------------------------------------------------------------
\* Properties of the track controller (specification Spec)
\* ------------------------------------------------------------------------

\* tolerance of comparisons between computed quantities: 0.01
Tol == Scale \div 100

Near(a, b) == Abs(a - b) <= Tol

\* the state follows a call of calculate_track
AfterCalculateTrack == out.op = "calculate_track"

\* the resolved limits of the leg are all positive
PositiveLimits ==
    /\ is_positive(leg.jerk_time)
    /\ is_positive(leg.jerk_max)
    /\ is_positive(leg.accel_max)
    /\ is_positive(leg.vel_max)

\* the length |destination - origin| of the last calculate_track call
RequestedLength == VecLength(VecSub(out.arg[2], out.arg[1]))

\* C1: after calculate_track on a non-degenerate leg (origin # destination,
\* all resolved limits positive) the path starts at rest and ends at rest at
\* the requested length: segment[0] has end_time, end_accel, end_vel and
\* end_pos zero, time_end() > 0, and segment[22] has end_pos equal to the
\* track length with end_vel = 0 and end_accel = 0 (each within Tol).
C1_RestToRest ==
    (AfterCalculateTrack /\ out.arg[1] # out.arg[2] /\ PositiveLimits) =>
        /\ leg.segment[SEG_INIT].end_time = 0
        /\ leg.segment[SEG_INIT].end_accel = 0
        /\ leg.segment[SEG_INIT].end_vel = 0
        /\ leg.segment[SEG_INIT].end_pos = 0
        /\ time_end(leg) > 0
        /\ Near(leg.segment[SEG_DECEL_END].end_pos, RequestedLength)
        /\ Near(leg.segment[SEG_DECEL_END].end_vel, 0)
        /\ Near(leg.segment[SEG_DECEL_END].end_accel, 0)

\* a leg with a cruise phase has been built
C1_Witness ==
    /\ AfterCalculateTrack
    /\ out.arg[1] # out.arg[2]
    /\ PositiveLimits
    /\ leg.num_segs = segments_max
    /\ leg.segment[SEG_CONST].end_time > leg.segment[SEG_CHANGE_END].end_time
    /\ leg.segment[SEG_DECEL_END].end_pos > Num(11)

\* C2: for every leg built by calculate_track with positive limits, every
\* one of the 23 segments stays within the leg's limits:
\* 0 <= end_vel <= vel_max, |end_accel| <= accel_max, |jerk_ref| <= jerk_max
\* (each within Tol).
C2_WithinLimits ==
    (AfterCalculateTrack /\ PositiveLimits /\ leg.num_segs = segments_max) =>
        \A k \in SegIndex :
            /\ leg.segment[k].end_vel >= -Tol
            /\ leg.segment[k].end_vel <= leg.vel_max + Tol
            /\ Abs(leg.segment[k].end_accel) <= leg.accel_max + Tol
            /\ Abs(leg.segment[k].jerk_ref) <= leg.jerk_max + Tol

\* a built leg whose acceleration limit is below jerk_max * jerk_time, so
\* that the solver has to reduce the jerk
C2_Witness ==
    /\ AfterCalculateTrack
    /\ PositiveLimits
    /\ leg.num_segs = segments_max
    /\ leg.accel_max < Mul(leg.jerk_max, leg.jerk_time)
    /\ leg.segment[SEG_ACCEL_MAX].end_accel > 0

\* C3: whenever num_segs # 23, for any value of time: finished() and
\* braking() return true; pos_end(), time_end(), get_time_remaining() and
\* get_accel_finished_time() return 0; set_origin_speed_max returns 0 and
\* set_destination_speed_max changes nothing; move_from_pos_vel_accel adds
\* zero to the caller's position, velocity and acceleration.
C3_UnbuiltLegSafe ==
    (leg.num_segs # segments_max) =>
        /\ finished(leg)
        /\ braking(leg)
        /\ pos_end(leg) = 0
        /\ time_end(leg) = 0
        /\ get_time_remaining(leg) = 0
        /\ get_accel_finished_time(leg) = 0
        /\ \A speed \in EndSpeeds :
              /\ set_origin_speed_max(leg, speed).ret = 0
              /\ set_origin_speed_max(leg, speed).leg = leg
              /\ set_destination_speed_max(leg, speed) = leg
        /\ \A dt \in TimeSteps, pva \in StartPva :
              move_from_pos_vel_accel(leg, dt, pva).pva = pva

\* an unbuilt leg that holds the table of an earlier build and has been stepped
C3_Witness ==
    /\ leg.num_segs # segments_max
    /\ leg.time > 0
    /\ leg.segment[SEG_DECEL_END].end_pos > 0
    /\ out.op = "move_from_pos_vel_accel"
    /\ out.ret[1] = out.arg[2]

\* C4: in every reachable state num_segs is 23 or 1; immediately after
\* calculate_track it is 23 exactly when the resolved jerk_time, jerk_max,
\* accel_max and vel_max are all positive and the track length is non-zero.
C4_SegmentCount ==
    /\ leg.num_segs \in {1, segments_max}
    /\ AfterCalculateTrack =>
          (leg.num_segs = segments_max
              <=> (PositiveLimits /\ ~is_zero(RequestedLength)))

\* calculate_track has left a leg unbuilt because of a non-positive limit
\* although its track has a length
C4_Witness ==
    /\ AfterCalculateTrack
    /\ leg.num_segs = 1
    /\ ~is_zero(RequestedLength)
    /\ ~PositiveLimits

\* the last segment of the table
LastSegment == leg.segment[leg.num_segs - 1]

\* times before the first boundary of the table, and at or after its last
EarlyTimes == {leg.segment[SEG_INIT].end_time - d : d \in {1, Num(1), Num(5)}}

LateTimes == {LastSegment.end_time + d : d \in {0, Num(1), Num(5)}}

\* the state u is the stored end state of the entry s
Stored(u, s) ==
    /\ Near(u.At, s.end_accel)
    /\ Near(u.Vt, s.end_vel)
    /\ Near(u.Pt, s.end_pos)

\* the state u continues the entry s to the time t with zero jerk
Extrapolated(u, s, t) ==
    /\ u.Jt = 0
    /\ u.At = s.end_accel
    /\ Near(u.Vt, s.end_vel + Mul(s.end_accel, t - s.end_time))
    /\ Near(u.Pt, s.end_pos + Mul(s.end_vel, t - s.end_time)
                  + Mul3(Num(1) \div 2, s.end_accel, sq(t - s.end_time)))

\* C8 as stated: update(t) clamps outside the table: for any t earlier than
\* segment[0].end_time it returns segment[0]'s stored end_accel, end_vel and
\* end_pos, and for any t at or after the last segment's end_time the last
\* segment's, with no further motion however far t lies outside, for every
\* leg including those with a non-zero origin or destination speed.
C8_ClampsOutside ==
    /\ \A t \in EarlyTimes : Stored(update(leg, t), leg.segment[SEG_INIT])
    /\ \A t \in LateTimes : Stored(update(leg, t), LastSegment)

\* C8 amended: outside the table update(t) continues the boundary entry
\* with zero jerk: for t earlier than segment[0].end_time from segment[0],
\* for t at or after the last segment's end_time from the last segment, it
\* returns accel = end_accel, vel = end_vel + end_accel * dt and
\* pos = end_pos + end_vel * dt + end_accel * dt^2 / 2 with dt the distance
\* of t from that boundary; the stored end state is returned unchanged only
\* where the entry's end_vel and end_accel are zero.
C8_ExtrapolatesOutside ==
    /\ \A t \in EarlyTimes : Extrapolated(update(leg, t), leg.segment[SEG_INIT], t)
    /\ \A t \in LateTimes : Extrapolated(update(leg, t), LastSegment, t)
    /\ (Near(LastSegment.end_vel, 0) /\ Near(LastSegment.end_accel, 0)) =>
          \A t \in LateTimes : Stored(update(leg, t), LastSegment)

\* a built leg with a destination speed, which keeps moving after its end
C8_Witness ==
    /\ leg.num_segs = segments_max
    /\ out.op = "set_destination_speed_max"
    /\ LastSegment.end_vel >= Num(1)
    /\ update(leg, LastSegment.end_time + Num(5)).Pt >= LastSegment.end_pos + Num(5)

\* times at and next to every boundary of the table, and the current time
ProbeTimes ==
    {leg.segment[k].end_time + d : k \in SegIndex, d \in {-1, 0, 1}} \cup {leg.time}

\* ... of them those within the table
InsideTimes ==
    {t \in ProbeTimes : /\ leg.segment[SEG_INIT].end_time <= t
                        /\ t < leg.segment[SEG_DECEL_END].end_time}

\* t lies in the window of segment k
InWindow(t, k) ==
    leg.segment[k - 1].end_time <= t /\ t < leg.segment[k].end_time

\* pnt is the lowest index whose window holds t, and that window is not empty
LowestWindow(t, pnt) ==
    /\ pnt \in 1 .. (segments_max - 1)
    /\ InWindow(t, pnt)
    /\ \A k \in 1 .. (pnt - 1) : ~InWindow(t, k)
    /\ leg.segment[pnt].end_time - leg.segment[pnt - 1].end_time > 0
    /\ leg.segment[pnt].end_time # t
    /\ update(leg, t) = update_within(leg, t, pnt, leg.segment[pnt - 1])

\* the selection rule on its own: every probed time inside the table is
\* evaluated in the lowest window that holds it, and that window is not empty
SelectsLowestWindow ==
    (leg.num_segs = segments_max) =>
        \A t \in InsideTimes : LowestWindow(t, active_segment(leg, t))

\* a t equal to the end_time of segment k is evaluated in a segment after k;
\* a selected segment that ends within Tol of t counts as ending at t, so
\* that a cruise time rounded just below zero is not taken for a reordering
FollowingSegment(t, k, pnt) ==
    (leg.segment[k].end_time = t) =>
        (pnt > k \/ leg.segment[pnt].end_time - t <= Tol)

\* C9: for a built leg and any t with segment[0].end_time <= t <
\* segment[22].end_time, update selects the lowest index i in 1..22 with
\* segment[i-1].end_time <= t < segment[i].end_time; a t exactly equal to a
\* segment's end_time is evaluated in the following segment (upper edge
\* exclusive), zero-duration segments are never selected, and the selected
\* segment's duration is strictly positive.
C9_BoundaryInFollowingSegment ==
    /\ SelectsLowestWindow
    /\ (leg.num_segs = segments_max) =>
            \A t \in InsideTimes : \A k \in SegIndex :
                FollowingSegment(t, k, active_segment(leg, t))

\* the formula of segment k at the elapsed time e of its duration T
SegmentAt(k, e, T) ==
    calc_javp(leg.segment[k].seg_type, e, T, leg.segment[k].jerk_ref,
              leg.segment[k - 1].end_accel, leg.segment[k - 1].end_vel,
              leg.segment[k - 1].end_pos)

\* segment k starts at the stored end state of segment k-1 and ends at its own
Joins(k, T) ==
    /\ Stored(SegmentAt(k, 0, T), leg.segment[k - 1])
    /\ Stored(SegmentAt(k, T, T), leg.segment[k])

\* C10: for every segment i in 1..22 of a built leg (after calculate_track
\* and after any retargeting call), the segment's formula at elapsed time 0
\* yields the stored end_accel, end_vel and end_pos of segment i-1 and at the
\* segment's full duration those of segment i (each within Tol).
C10_Continuous ==
    (leg.num_segs = segments_max) =>
        \A k \in 1 .. (segments_max - 1) :
            Joins(k, leg.segment[k].end_time - leg.segment[k - 1].end_time)

\* a leg retargeted by set_speed_max while it was moving
C10_Witness ==
    /\ leg.num_segs = segments_max
    /\ out.op = "set_speed_max"
    /\ leg.time > 0
    /\ leg.segment[SEG_INIT].end_time > 0

\* the speed along the track that set_speed_max resolves from its arguments
ResolvedSpeed(l, arg) ==
    kinematic_limit(l.delta_unit, arg[1], arg[2], Abs(arg[3]))

\* the no-op cases of set_speed_max
SpeedNoOp(l, arg) ==
    \/ is_equal(l.vel_max, ResolvedSpeed(l, arg))
    \/ is_zero(l.vel_max)
    \/ is_zero(ResolvedSpeed(l, arg))
    \/ l.num_segs # segments_max

\* a step that is a call of the named operation
Calls(name) == out'.op = name /\ ops' = ops + 1

\* C13: set_speed_max leaves every field of the leg unchanged (vel_max, time,
\* num_segs and all 23 segments) in each of its no-op cases: the resolved new
\* speed equals the current vel_max, the current vel_max or the resolved new
\* speed is zero, or the leg is not fully built.
C13_SpeedNoOpFrame ==
    [][(Calls("set_speed_max") /\ SpeedNoOp(leg, out'.arg)) => leg' = leg]_vars

\* a built leg in flight after set_speed_max with the speed it already had
C13_Witness ==
    /\ out.op = "set_speed_max"
    /\ leg.num_segs = segments_max
    /\ leg.time > 0
    /\ leg.time < leg.segment[SEG_CONST].end_time
    /\ is_equal(leg.vel_max, Num(2))
    /\ is_equal(ResolvedSpeed(leg, out.arg), Num(2))

\* C14: for a built leg the total distance is immutable: after any sequence
\* of set_speed_max, set_origin_speed_max and set_destination_speed_max calls
\* made at any elapsed times, segment[22].end_pos (pos_end()) still equals
\* the value it had right after calculate_track, the length of the track
\* (within Tol).
C14_DistancePreserved ==
    (leg.num_segs = segments_max) => Near(pos_end(leg), VecLength(leg.track))

\* a leg in flight whose speed limit and whose origin speed were changed
C14_Witness ==
    /\ leg.num_segs = segments_max
    /\ out.op = "set_origin_speed_max"
    /\ leg.segment[SEG_INIT].end_vel > 0
    /\ leg.time > 0

\* ------------------------------------------------------------------------
\* The path solver called directly, and the ramp its caller builds
\* ------------------------------------------------------------------------

\* inputs of calculate_path: <<tj, Jm, V0, Am, Vm, L>>
PathTimes == {Num(1) \div 2}

PathJerks == {Num(1), Num(3)}

PathStarts == {0, Num(1)}

PathAccels == {Num(1), Num(3)}

PathSpeeds == {Num(2), Num(4)}

PathLengths == {Num(1) \div 2, Num(3) \div 2, Num(5) \div 2, Num(6), Num(20)}

ValidPathInputs ==
    PathTimes \X PathJerks \X PathStarts \X PathAccels \X PathSpeeds \X PathLengths

\* one of tj, Jm, Am, Vm, L zero or negative
InvalidPathInputs ==
    {<<0, Num(1), 0, Num(1), Num(2), Num(6)>>,
     <<Num(1) \div 2, 0, 0, Num(1), Num(2), Num(6)>>,
     <<Num(1) \div 2, Num(1), 0, 0, Num(2), Num(6)>>,
     <<Num(1) \div 2, Num(1), 0, Num(1), 0, Num(6)>>,
     <<Num(1) \div 2, Num(1), 0, Num(1), Num(2), 0>>,
     <<-Num(1), Num(1), 0, Num(1), Num(2), Num(6)>>,
     <<Num(1) \div 2, -Num(1), 0, Num(1), Num(2), Num(6)>>,
     <<Num(1) \div 2, Num(1), Num(1), -Num(1), Num(2), Num(6)>>,
     <<Num(1) \div 2, Num(1), 0, Num(1), -Num(2), Num(6)>>,
     <<Num(1) \div 2, Num(1), Num(3), Num(1), Num(2), -Num(6)>>}

\* V0 >= Vm with the other inputs positive
NoChangePathInputs ==
    {<<Num(1) \div 2, Num(1), Num(2), Num(1), Num(2), Num(6)>>,
     <<Num(1) \div 2, Num(3), Num(4), Num(3), Num(2), Num(1) \div 2>>}

PathInputs == ValidPathInputs \cup InvalidPathInputs \cup NoChangePathInputs

InitPath ==
    /\ leg = NewLeg
    /\ out = NoOut
    /\ ops = 0
    /\ path = NoPath
    /\ prev_leg = NewLeg
    /\ next_leg = NewLeg

\* calculate_path(tj, Jm, V0, Am, Vm, L, Jm_out, t2_out, t4_out, t6_out)
CalculatePath ==
    \E in \in PathInputs :
        /\ path = NoPath
        /\ path' = [in |-> in,
                    out |-> calculate_path(in[1], in[2], in[3], in[4], in[5], in[6])]
        /\ UNCHANGED <<leg, out, ops, prev_leg, next_leg>>

\* the ramp a caller builds from the solver's result, as set_origin_speed_max
\* does: the INIT segment at speed V0, then add_segments_jerk(tj, Jm, t2),
\* add_segment_const_jerk(t4, 0), add_segments_jerk(tj, -Jm, t6)
ramp_from(seg, tj, V0, p) ==
    add_accel(add_segment(Cursor(seg, SEG_INIT), 0, CONSTANT_JERK, 0, 0, V0, 0), tj, p)

\* (the callers pass the jerk_time of a built leg, which is positive)
AddRamp ==
    /\ path # NoPath
    /\ is_positive(path.in[1])
    /\ ops = 0
    /\ Call("add_ramp", path.in,
            WithCursor(WithError(leg, path.out),
                       ramp_from(leg.segment, path.in[1], path.in[3], path.out)),
            <<>>)

NextPath ==
    \/ CalculatePath
    \/ AddRamp

SpecPath == InitPath /\ [][NextPath]_vars

\* ------------------------------------------------------------------------
\* Properties of the path solver (specification SpecPath)
\* ------------------------------------------------------------------------

\* calculate_path has been called
PathCalled == path # NoPath

\* tj, Jm, Am, Vm and L of the call are all positive
PositivePathInputs ==
    /\ is_positive(path.in[1])
    /\ is_positive(path.in[2])
    /\ is_positive(path.in[4])
    /\ is_positive(path.in[5])
    /\ is_positive(path.in[6])

\* Jm_out = t2_out = t4_out = t6_out = 0
ZeroPathOutput ==
    /\ path.out.Jm_out = 0
    /\ path.out.t2_out = 0
    /\ path.out.t4_out = 0
    /\ path.out.t6_out = 0

\* the caller has written the ramp of the call's result
RampAdded == PathCalled /\ out.op = "add_ramp"

\* C5: for every input to calculate_path (valid, infeasible or invalid) the
\* three returned durations t2_out, t4_out and t6_out are all >= 0.
C5_DurationsNonNegative ==
    PathCalled =>
        /\ path.out.t2_out >= 0
        /\ path.out.t4_out >= 0
        /\ path.out.t6_out >= 0

\* C6: for valid inputs (tj, Jm, Am, Vm, L all positive) with 0 <= V0 < Vm,
\* the ramp built from calculate_path's output starting at velocity V0 ends
\* with zero acceleration, with an end velocity that never exceeds Vm and
\* equals Vm when neither the distance bound nor the acceleration bound is
\* binding (the ramp ends short of L and its peak acceleration is below Am),
\* and covers a distance that never exceeds L (each within Tol).
C6_RampWithinBounds ==
    (RampAdded /\ PositivePathInputs
        /\ 0 <= path.in[3] /\ path.in[3] < path.in[5]) =>
        /\ Near(leg.segment[SEG_ACCEL_END].end_accel, 0)
        /\ leg.segment[SEG_ACCEL_END].end_vel <= path.in[5] + Tol
        /\ (/\ leg.segment[SEG_ACCEL_END].end_pos < path.in[6] - Tol
            /\ leg.segment[SEG_ACCEL_MAX].end_accel < path.in[4] - Tol)
              => Near(leg.segment[SEG_ACCEL_END].end_vel, path.in[5])
        /\ leg.segment[SEG_ACCEL_END].end_pos <= path.in[6] + Tol

\* C7: calculate_path returns all-zero output without aborting in both
\* no-ramp cases: when any of tj, Jm, Am, Vm, L is non-positive (and then it
\* also reports the invalid_arguments internal error), and when V0 >= Vm; in
\* both cases the caller runs to completion and appends its full set of
\* segments (seven, all at the start velocity with zero acceleration).
C7_NoRampCases ==
    /\ (PathCalled /\ ~PositivePathInputs) =>
          (ZeroPathOutput /\ path.out.error)
    /\ (PathCalled /\ PositivePathInputs /\ path.in[3] >= path.in[5]) =>
          (ZeroPathOutput /\ ~path.out.error)
    /\ (RampAdded /\ (~PositivePathInputs \/ path.in[3] >= path.in[5])) =>
          /\ leg.num_segs = SEG_ACCEL_END + 1
          /\ leg.internal_error = ~PositivePathInputs
          /\ \A k \in (SEG_INIT + 1) .. SEG_ACCEL_END :
                /\ leg.segment[k].end_accel = 0
                /\ leg.segment[k].end_vel = path.in[3]
                /\ leg.segment[k].jerk_ref = 0

\* the caller has built its ramp from the result of a call with V0 > Vm
C7_Witness ==
    /\ RampAdded
    /\ PositivePathInputs
    /\ path.in[3] > path.in[5]
    /\ leg.num_segs = SEG_ACCEL_END + 1
    /\ leg.segment[SEG_ACCEL_END].end_time = Mul(Num(4), path.in[1])

\* ------------------------------------------------------------------------
\* The state machine of one long leg retargeted in flight
\* ------------------------------------------------------------------------

\* operations explored on the long leg
MaxFlightOps == 5

\* a leg long enough for a velocity-change ramp to fit into its cruise
LongLegInputs ==
    {TrackInput(<<Num(40), 0, 0>>, Num(2), Num(3), Num(1), Num(1) \div 2, Num(3)),
     TrackInput(<<Num(40), 0, 0>>, Num(2), Num(1), Num(1), Num(1) \div 2, Num(3))}

FlightSteps == {Num(1), Num(3)}

FlightSpeeds == {Num(1), Num(4)}

FlightCalculateTrack ==
    \E in \in LongLegInputs :
        /\ ops = 0
        /\ Call("calculate_track", in,
                calculate_track(leg, in[1], in[2], in[3], in[4], in[5],
                                in[6], in[7], in[8], in[9]),
                <<>>)

FlightMoveFromPosVelAccel ==
    \E dt \in FlightSteps, pva \in StartPva :
        /\ 0 < ops /\ ops < MaxFlightOps
        /\ CallReturning("move_from_pos_vel_accel", <<dt, pva>>,
                         move_from_pos_vel_accel(leg, dt, pva), "pva")

FlightSetSpeedMax ==
    \E sxy \in FlightSpeeds, su \in SpeedsUp, sd \in SpeedsDown :
        /\ 0 < ops /\ ops < MaxFlightOps
        /\ Call("set_speed_max", <<sxy, su, sd>>,
                set_speed_max(leg, sxy, su, sd), <<>>)

NextFlight ==
    \/ FlightCalculateTrack
    \/ FlightMoveFromPosVelAccel
    \/ FlightSetSpeedMax

SpecFlight == Init /\ [][NextFlight]_vars

\* ------------------------------------------------------------------------
\* Properties of retargeting in flight (specifications Spec and SpecFlight)
\* ------------------------------------------------------------------------

\* the leg is built and started, and has not reached the end of its cruise
InFlight(l) ==
    /\ l.num_segs = segments_max
    /\ 0 < l.time
    /\ l.time < l.segment[SEG_CONST].end_time

\* two states of update() with the same acceleration, velocity and position
SameTargets(u, w) ==
    Near(u.At, w.At) /\ Near(u.Vt, w.Vt) /\ Near(u.Pt, w.Pt)

\* C15: set_speed_max called on a started leg (0 < time < end of the cruise
\* segment), in whichever phase time lies, does not change the
\* already-travelled part of the trajectory: time is unchanged and
\* update(time) returns the same acceleration, velocity and position
\* immediately before and immediately after the call.
C15_TargetsDoNotJump ==
    [][(Calls("set_speed_max") /\ InFlight(leg)) =>
           /\ leg'.time = leg.time
           /\ SameTargets(update(leg', leg.time), update(leg, leg.time))]_vars

\* a leg retargeted a second time while it flew the velocity-change ramp,
\* which the call moved into the acceleration segments
C15_Witness ==
    /\ out.op = "set_speed_max"
    /\ leg.num_segs = segments_max
    /\ 0 < leg.segment[SEG_INIT].end_time
    /\ leg.segment[SEG_INIT].end_time < leg.time
    /\ leg.time < leg.segment[SEG_ACCEL_END].end_time
    /\ leg.segment[SEG_ACCEL_END].end_vel # leg.segment[SEG_INIT].end_vel

\* C16: on a fully built leg finished() is true exactly when time is strictly
\* greater than segment[22].end_time; it is false when time equals the end
\* time and at every earlier time.
C16_FinishedStrictlyAfterEnd ==
    (leg.num_segs = segments_max) =>
        (finished(leg) <=> leg.time > leg.segment[SEG_DECEL_END].end_time)

\* a built leg stepped exactly to its end time
C16_Witness ==
    /\ leg.num_segs = segments_max
    /\ leg.time > 0
    /\ leg.time = leg.segment[SEG_DECEL_END].end_time
    /\ ~finished(leg)

\* C17 as stated: on a fully built leg braking() is true whenever the leg's
\* time lies in its cruise phase or any later phase, i.e. for every time >=
\* segment[14].end_time (the end of the velocity-change ramp), and false
\* before that.
C17_BrakingFromCruise ==
    (leg.num_segs = segments_max) =>
        (braking(leg) <=> leg.time >= leg.segment[SEG_CHANGE_END].end_time)

\* C17: on a fully built leg braking() is true exactly for every time >=
\* segment[15].end_time, the end of the cruise segment where the
\* deceleration ramp begins; it is false before that, the cruise included.
C17_BrakingFromDeceleration ==
    (leg.num_segs = segments_max) =>
        (braking(leg) <=> leg.time >= leg.segment[SEG_CONST].end_time)

\* a built leg in its cruise, which is not braking
C17_Witness ==
    /\ leg.num_segs = segments_max
    /\ leg.segment[SEG_CHANGE_END].end_time <= leg.time
    /\ leg.time < leg.segment[SEG_CONST].end_time
    /\ ~braking(leg)

\* C18: the one-sided speed setters leave the other end of the leg
\* unchanged: set_origin_speed_max does not change the leg's final velocity
\* segment[22].end_vel (within Tol), and set_destination_speed_max does not
\* change any of segments 0..14.
C18_OtherEndKept ==
    [][/\ Calls("set_origin_speed_max") =>
              Near(leg'.segment[SEG_DECEL_END].end_vel,
                   leg.segment[SEG_DECEL_END].end_vel)
       /\ Calls("set_destination_speed_max") =>
              \A k \in SEG_INIT .. SEG_CHANGE_END :
                  leg'.segment[k] = leg.segment[k]]_vars

\* the leg that calculate_track builds from the arguments a with the speeds
\* s of set_speed_max in place of its own
FreshTrack(a, s) ==
    calculate_track(NewLeg, a[1], a[2], s[1], s[2], s[3], a[6], a[7], a[8], a[9])

SameSegment(x, y) ==
    /\ x.seg_type = y.seg_type
    /\ Near(x.end_time, y.end_time)
    /\ Near(x.jerk_ref, y.jerk_ref)
    /\ Near(x.end_accel, y.end_accel)
    /\ Near(x.end_vel, y.end_vel)
    /\ Near(x.end_pos, y.end_pos)

SameTable(l, m) ==
    /\ l.num_segs = m.num_segs
    /\ \A k \in SegIndex : SameSegment(l.segment[k], m.segment[k])

\* set_speed_max is called on a leg just built, which has not started
RestartCall ==
    /\ Calls("set_speed_max")
    /\ out.op = "calculate_track"
    /\ leg.num_segs = segments_max
    /\ leg.time = 0

Restarted ==
    /\ leg'.time = 0
    /\ leg'.num_segs = segments_max
    /\ SameTable(leg', FreshTrack(out.arg, out'.arg))

\* C19 as stated: set_speed_max called with time == 0 on a fully built leg
\* whose origin and destination speeds are zero produces the segment table
\* that a fresh calculate_track with the same origin, destination,
\* acceleration and jerk limits and the new speed limit produces, with time
\* still 0 and num_segs 23 (values within Tol).
C19_RestartEqualsFreshTrack ==
    [][RestartCall => Restarted]_vars

\* C19: ... the same, for a new speed limit that is not zero along the track.
C19_RestartEqualsFreshTrackNonZero ==
    [][(RestartCall /\ ~is_zero(ResolvedSpeed(leg, out'.arg))) => Restarted]_vars

\* a leg built for 2 m/s and restarted at rest for 1 m/s
C19_Witness ==
    /\ out.op = "set_speed_max"
    /\ ops = 2
    /\ leg.num_segs = segments_max
    /\ leg.time = 0
    /\ leg.vel_max = Num(1)

MaxSteps == 4

\* the leg flown and the legs that may follow it: around a corner, straight on
LegInputs == {TrackInput(<<Num(12), 0, 0>>, Num(2), Num(3), Num(1), Num(1) \div 2, Num(3))}

NextLegInputs ==
    {TrackInput(<<0, Num(12), 0>>, Num(2), Num(3), Num(1), Num(1) \div 2, Num(3)),
     TrackInput(<<Num(12), 0, 0>>, Num(2), Num(1), Num(1), Num(1) \div 2, Num(3))}

PrevLegInputs == {TrackInput(<<0, Num(3), 0>>, Num(2), Num(3), Num(1), Num(1) \div 2, Num(3))}

\* speed at the waypoint between two legs
CornerSpeeds == {Num(1)}

WpRadii == {Num(1) \div 10, Num(2)}

AdvanceSteps == {Num(1), Num(3)}

InitAdvance ==
    /\ leg = NewLeg
    /\ out = NoOut
    /\ ops = 0
    /\ path = NoPath
    /\ prev_leg = NewLeg
    /\ next_leg = NewLeg

\* the record of a call made while the legs are planned
Planned(name, args) ==
    /\ out' = [op |-> name, arg |-> args, ret |-> <<>>]
    /\ UNCHANGED <<ops, path>>

CalculateTrackPrevLeg ==
    \E in \in PrevLegInputs :
        /\ ops = 0
        /\ prev_leg = NewLeg
        /\ prev_leg' = calculate_track(prev_leg, in[1], in[2], in[3], in[4], in[5],
                                       in[6], in[7], in[8], in[9])
        /\ Planned("calculate_track", in)
        /\ UNCHANGED <<leg, next_leg>>

CalculateTrackLeg ==
    \E in \in LegInputs :
        /\ ops = 0
        /\ leg = NewLeg
        /\ leg' = calculate_track(leg, in[1], in[2], in[3], in[4], in[5],
                                  in[6], in[7], in[8], in[9])
        /\ Planned("calculate_track", in)
        /\ UNCHANGED <<prev_leg, next_leg>>

\* the next leg is planned before or while this leg is flown
CalculateTrackNextLeg ==
    \E in \in NextLegInputs :
        /\ ops < MaxSteps
        /\ next_leg = NewLeg
        /\ next_leg' = calculate_track(next_leg, in[1], in[2], in[3], in[4], in[5],
                                       in[6], in[7], in[8], in[9])
        /\ Planned("calculate_track", in)
        /\ UNCHANGED <<prev_leg, leg>>

SetDestinationSpeedMaxLeg ==
    \E speed \in CornerSpeeds :
        /\ ops = 0
        /\ leg.num_segs = segments_max
        /\ leg.segment[SEG_DECEL_END].end_vel = 0
        /\ leg' = set_destination_speed_max(leg, speed)
        /\ Planned("set_destination_speed_max", <<speed>>)
        /\ UNCHANGED <<prev_leg, next_leg>>

SetOriginSpeedMaxNextLeg ==
    \E speed \in CornerSpeeds :
        /\ ops < MaxSteps
        /\ next_leg.num_segs = segments_max
        /\ next_leg.time = 0
        /\ next_leg.segment[SEG_INIT].end_vel = 0
        /\ next_leg' = set_origin_speed_max(next_leg, speed).leg
        /\ Planned("set_origin_speed_max", <<speed>>)
        /\ UNCHANGED <<prev_leg, leg>>

\* the state after the call whose result is r
AdvancedTo(args, r) ==
    /\ prev_leg' = r.prev_leg
    /\ leg' = r.leg
    /\ next_leg' = r.next_leg
    /\ out' = [op |-> "advance_target_along_track", arg |-> args,
               ret |-> <<r.pva, r.ret>>]
    /\ ops' = ops + 1
    /\ UNCHANGED path

\* leg.advance_target_along_track(prev_leg, next_leg, wp_radius,
\* fast_waypoint, dt, target_pos, target_vel, target_accel); the record of
\* the call keeps the three legs as they were when it was made
AdvanceTargetAlongTrack ==
    \E wp_radius \in WpRadii, fast_waypoint \in BOOLEAN, dt \in AdvanceSteps, pva \in StartPva :
        /\ ops < MaxSteps
        /\ AdvancedTo(<<prev_leg, leg, next_leg, wp_radius, fast_waypoint, dt, pva>>,
                      advance_target_along_track(leg, prev_leg, next_leg, wp_radius,
                                                 fast_waypoint, dt, pva))

NextAdvance ==
    \/ CalculateTrackPrevLeg
    \/ CalculateTrackLeg
    \/ CalculateTrackNextLeg
    \/ SetDestinationSpeedMaxLeg
    \/ SetOriginSpeedMaxNextLeg
    \/ AdvanceTargetAlongTrack

SpecAdvance == InitAdvance /\ [][NextAdvance]_vars

\* ------------------------------------------------------------------------
\* Properties of stepping three legs (specification SpecAdvance)
\* ------------------------------------------------------------------------

AfterAdvance == out.op = "advance_target_along_track"

\* the corner predicted from this leg after its move and next_leg as it was
PredictedTurn == turn_pva(leg, out.arg[3], get_time_remaining(leg))

\* the conditions under which next_leg may be started
BlendAllowed ==
    /\ out.arg[5]
    /\ braking(leg)
    /\ VecLength(PredictedTurn.pos) < out.arg[4]
    /\ Vec2Length(PredictedTurn.vel) < MIN(leg.vel_max, out.arg[3].vel_max)
    /\ Vec2Length(PredictedTurn.accel)
           < Mul(Num(2), MIN(leg.accel_max, out.arg[3].accel_max))

\* the targets that prev_leg and this leg alone give
TargetsWithoutNext ==
    move_from_pos_vel_accel(
        out.arg[2], out.arg[6],
        move_to_pos_vel_accel(out.arg[1], out.arg[6], out.arg[7]).pva).pva

\* C11: advance_target_along_track changes next_leg's elapsed time from zero
\* to non-zero only if fast_waypoint is true, this leg is braking(), the
\* predicted corner lies within wp_radius, the predicted horizontal speed is
\* below the lesser along-track speed and the predicted horizontal
\* acceleration below twice the lesser along-track acceleration; in every
\* other case a next_leg that has not started stays at elapsed time zero and
\* contributes nothing to the targets.
C11_BlendOnlyWhenAllowed ==
    (AfterAdvance /\ out.arg[3].time = 0) =>
        IF next_leg.time # 0
        THEN BlendAllowed
        ELSE next_leg = out.arg[3] /\ out.ret[1] = TargetsWithoutNext

\* a call which starts a built next_leg, and whose targets hold its share
C11_Witness ==
    /\ AfterAdvance
    /\ out.arg[3].time = 0
    /\ out.arg[3].num_segs = segments_max
    /\ next_leg.time = out.arg[6]
    /\ out.ret[1] # TargetsWithoutNext

\* C12: advance_target_along_track returns true exactly when, after this
\* call's time advances, this leg is finished() or next_leg had already
\* started before the call and its elapsed time is at least this leg's
\* remaining time; it returns false in every other case, including the call
\* in which the blend into next_leg is first accepted while this leg is not
\* yet finished.
C12_ReturnsFinishedOrHandedOver ==
    AfterAdvance =>
        (out.ret[2] <=> \/ finished(leg)
                        \/ /\ out.arg[3].time # 0
                           /\ next_leg.time >= get_time_remaining(leg))

\* a call that returns true by the hand-over while this leg is not finished
C12_Witness ==
    /\ AfterAdvance
    /\ out.ret[2]
    /\ ~finished(leg)
    /\ leg.num_segs = segments_max
    /\ next_leg.num_segs = segments_max

\* ------------------------------------------------------------------------
\* Properties of the segment table (specification Spec)
\* ------------------------------------------------------------------------

\* the field f of the table of l does not decrease from one entry to the next
NonDecreasing(l, f) ==
    \A i \in 1 .. SEG_DECEL_END : l.segment[i][f] >= l.segment[i - 1][f]

\* the same up to the tolerance of computed quantities
NearlyNonDecreasing(l, f) ==
    \A i \in 1 .. SEG_DECEL_END : l.segment[i][f] >= l.segment[i - 1][f] - Tol

\* the velocity rises up to the cruise segment and falls after it
RisesThenFalls(l) ==
    /\ \A i \in 1 .. SEG_CONST :
          l.segment[i].end_vel >= l.segment[i - 1].end_vel - Tol
    /\ \A i \in (SEG_CONST + 1) .. SEG_DECEL_END :
          l.segment[i].end_vel <= l.segment[i - 1].end_vel + Tol

\* C21 as stated: for a fully built leg each field of the segment table is
\* non-decreasing across the sequence: end_time, end_accel, end_vel and
\* end_pos of segment[i] are at least those of segment[i-1], for i in 1..22.
C21_FieldsNonDecreasing ==
    (leg.num_segs = segments_max) =>
        /\ NonDecreasing(leg, "end_time")
        /\ NonDecreasing(leg, "end_accel")
        /\ NonDecreasing(leg, "end_vel")
        /\ NonDecreasing(leg, "end_pos")

\* C21: for a leg fully built by calculate_track, end_time and end_pos do
\* not decrease across the sequence (within Tol); end_vel does not decrease
\* up to the cruise segment 15 and does not increase after it (within Tol),
\* and end_accel is not monotonic.
C21_TimeAndPositionNonDecreasing ==
    (AfterCalculateTrack /\ leg.num_segs = segments_max) =>
        /\ NearlyNonDecreasing(leg, "end_time")
        /\ NearlyNonDecreasing(leg, "end_pos")
        /\ RisesThenFalls(leg)
        /\ ~NonDecreasing(leg, "end_accel")
        /\ ~NonDecreasing(leg, "end_vel")

\* a leg built by calculate_track with a cruise phase, whose velocity and
\* acceleration fall along its deceleration ramp
C21_Witness ==
    /\ AfterCalculateTrack
    /\ leg.num_segs = segments_max
    /\ leg.segment[SEG_CONST].end_time > leg.segment[SEG_CHANGE_END].end_time + Tol
    /\ leg.segment[SEG_DECEL_END].end_vel < leg.segment[SEG_CONST].end_vel - Num(1)
    /\ leg.segment[SEG_CONST + 2].end_accel < leg.segment[SEG_CONST].end_accel - Tol

\* the solver result from which add_segments builds the table of l
TrackPath(l) ==
    calculate_path(l.jerk_time, l.jerk_max, 0, l.accel_max, l.vel_max,
                   Div(VecLength(l.track), Num(2)))

\* duration of segment i of the table of l
Duration(l, i) == l.segment[i].end_time - l.segment[i - 1].end_time

\* the segment types of a ramp of seven segments
RampTypes ==
    <<POSITIVE_JERK, CONSTANT_JERK, NEGATIVE_JERK, CONSTANT_JERK,
      POSITIVE_JERK, CONSTANT_JERK, NEGATIVE_JERK>>

\* entries base + 1 .. base + 7 of l are a ramp whose first jerk triplet has
\* jerk Jfirst and constant-jerk duration Tfirst, whose plateau lasts t4 and
\* whose last triplet has jerk -Jfirst and constant-jerk duration Tlast
RampLayout(l, base, Jfirst, Tfirst, t4, Tlast) ==
    /\ \A k \in 1 .. 7 : l.segment[base + k].seg_type = RampTypes[k]
    /\ \A k \in 1 .. 3 : l.segment[base + k].jerk_ref = Jfirst
    /\ l.segment[base + 4].jerk_ref = 0
    /\ \A k \in 5 .. 7 : l.segment[base + k].jerk_ref = -Jfirst
    /\ \A k \in {1, 3, 5, 7} : Duration(l, base + k) = l.jerk_time
    /\ Duration(l, base + 2) = Tfirst
    /\ Duration(l, base + 4) = t4
    /\ Duration(l, base + 6) = Tlast

\* entry i of l is a zero-duration constant segment that repeats the end
\* state of entry SEG_ACCEL_END
EmptyChange(l, i) ==
    /\ l.segment[i].seg_type = CONSTANT_JERK
    /\ l.segment[i].jerk_ref = 0
    /\ l.segment[i].end_time = l.segment[SEG_ACCEL_END].end_time
    /\ l.segment[i].end_accel = l.segment[SEG_ACCEL_END].end_accel
    /\ l.segment[i].end_vel = l.segment[SEG_ACCEL_END].end_vel
    /\ l.segment[i].end_pos = l.segment[SEG_ACCEL_END].end_pos

\* C22: after calculate_track on a non-degenerate leg the table has the
\* canonical layout: entry 0 is the zero initial state; entries 1..7 are
\* POSITIVE, CONSTANT, NEGATIVE, CONSTANT (plateau, jerk 0), POSITIVE,
\* CONSTANT, NEGATIVE with jerk +Jm on 1..3 and -Jm on 5..7; entries 8..14
\* are zero-duration CONSTANT_JERK segments whose end state is that of
\* entry 7; entry 15 is the zero-jerk constant-velocity cruise; entries
\* 16..22 repeat the pattern with the jerk sign mirrored and the durations
\* in reverse order (t6, t4, t2).
C22_CanonicalLayout ==
    (AfterCalculateTrack /\ out.arg[1] # out.arg[2] /\ PositiveLimits) =>
        /\ leg.num_segs = segments_max
        /\ leg.segment[SEG_INIT] = ZeroSegment
        /\ TrackPath(leg).Jm_out > 0
        /\ RampLayout(leg, SEG_INIT, TrackPath(leg).Jm_out,
                      TrackPath(leg).t2_out, TrackPath(leg).t4_out,
                      TrackPath(leg).t6_out)
        /\ \A i \in (SEG_ACCEL_END + 1) .. SEG_CHANGE_END : EmptyChange(leg, i)
        /\ leg.segment[SEG_CONST].seg_type = CONSTANT_JERK
        /\ leg.segment[SEG_CONST].jerk_ref = 0
        /\ Near(leg.segment[SEG_CONST].end_vel, leg.segment[SEG_CHANGE_END].end_vel)
        /\ Near(leg.segment[SEG_CONST].end_accel, 0)
        /\ RampLayout(leg, SEG_CONST, -TrackPath(leg).Jm_out,
                      TrackPath(leg).t6_out, TrackPath(leg).t4_out,
                      TrackPath(leg).t2_out)

\* calculate_track has built a leg with a plateau of constant acceleration
\* and a cruise phase
C22_Witness ==
    /\ AfterCalculateTrack
    /\ out.arg[1] # out.arg[2]
    /\ PositiveLimits
    /\ leg.num_segs = segments_max
    /\ Duration(leg, SEG_ACCEL_MAX) > 0
    /\ Duration(leg, SEG_CONST) > Num(1)
    /\ leg.segment[SEG_DECEL_END - 2].jerk_ref > 0

\* ------------------------------------------------------------------------
\* Frame and progress of stepping three legs (specification SpecAdvance)
\* ------------------------------------------------------------------------

\* the leg after is the leg before with its time advanced by d and nothing
\* else changed
OnlyTimeAdvanced(before, after, d) ==
    after = [before EXCEPT !.time = before.time + d]

\* C23: one call of advance_target_along_track changes, of the three legs,
\* only their time: prev_leg's and this leg's time advance by dt exactly
\* once, next_leg's time advances by 0 or by dt (never twice), the corner
\* prediction moves no time, and no segment, limit, track or num_segs of any
\* leg is modified.
C23_OnlyTimeCursorsMove ==
    AfterAdvance =>
        /\ OnlyTimeAdvanced(out.arg[1], prev_leg, out.arg[6])
        /\ OnlyTimeAdvanced(out.arg[2], leg, out.arg[6])
        /\ \/ next_leg = out.arg[3]
           \/ OnlyTimeAdvanced(out.arg[3], next_leg, out.arg[6])

\* a call on three built legs that predicts the corner, accepts it and
\* starts next_leg
C23_Witness ==
    /\ AfterAdvance
    /\ out.arg[1].num_segs = segments_max
    /\ out.arg[2].num_segs = segments_max
    /\ out.arg[3].num_segs = segments_max
    /\ out.arg[3].time = 0
    /\ BlendAllowed
    /\ next_leg.time = out.arg[6]
    /\ prev_leg.time > out.arg[6]

\* ------------------------------------------------------------------------
\* Further properties of retargeting (specifications Spec and SpecFlight)
\* ------------------------------------------------------------------------

\* a call of set_speed_max that lowers the speed limit of a leg in flight
LowersSpeed ==
    /\ Calls("set_speed_max")
    /\ InFlight(leg)
    /\ leg'.vel_max < leg.vel_max

\* C24 as stated: after set_speed_max lowers the speed limit on a fully
\* built, started leg (0 < time < end of the cruise segment) the cruise
\* velocity segment[15].end_vel is at most the new vel_max.
C24_CruiseWithinNewLimit ==
    [][LowersSpeed => leg'.segment[SEG_CONST].end_vel <= leg'.vel_max + Tol]_vars

\* the velocity-change ramp of l is empty: entries 8..14 have no duration
NoChangeRamp(l) ==
    \A i \in (SEG_ACCEL_END + 1) .. SEG_CHANGE_END : Duration(l, i) = 0

\* C24: after set_speed_max lowers the speed limit on a fully built, started
\* leg (0 < time < end of the cruise segment) the cruise velocity
\* segment[15].end_vel lies between the new vel_max and the cruise velocity
\* before the call (within Tol): it moves towards the new limit, never past
\* it, and may stay above it.
C24_CruiseTowardsNewLimit ==
    [][LowersSpeed =>
           /\ leg'.segment[SEG_CONST].end_vel
                  <= MAX(leg'.vel_max, leg.segment[SEG_CONST].end_vel) + Tol
           /\ leg'.segment[SEG_CONST].end_vel
                  >= MIN(leg'.vel_max, leg.segment[SEG_CONST].end_vel) - Tol]_vars

\* a leg in flight whose limit was lowered below the speed its acceleration
\* phase ends with, and whose velocity-change ramp takes it down to the new
\* limit
C24_Witness ==
    /\ out.op = "set_speed_max"
    /\ InFlight(leg)
    /\ leg.segment[SEG_ACCEL_END].end_vel > leg.vel_max + Num(1) \div 2
    /\ ~NoChangeRamp(leg)
    /\ Near(leg.segment[SEG_CONST].end_vel, leg.vel_max)

\* C25: for a built leg, after any sequence of set_speed_max,
\* set_origin_speed_max and set_destination_speed_max calls at any elapsed
\* times, the segment end times stay ordered: segment[i].end_time is at
\* least segment[i-1].end_time for every i in 1..22 (here: within Tol, so
\* that a cruise time rounded below zero does not count).
C25_EndTimesStayOrdered ==
    (leg.num_segs = segments_max) => NearlyNonDecreasing(leg, "end_time")

\* the cursor d follows the cursor c by one appended segment: the index is
\* advanced by exactly one and only the entry at c's index, an entry of the
\* table, is written
OneAppended(c, d) ==
    /\ c.index \in SegIndex
    /\ d.index = c.index + 1
    /\ DOMAIN d.segment = SegIndex
    /\ \A k \in SegIndex \ {c.index} : d.segment[k] = c.segment[k]

\* each segment builder, called on the table of l at index i, reads entry
\* i - 1 and appends one segment at i
BuildersAppendOne(l, i) ==
    /\ InTable(Cursor(l.segment, i))
    /\ i - 1 \in SegIndex
    /\ OneAppended(Cursor(l.segment, i),
                   add_segment_const_jerk(Cursor(l.segment, i), l.jerk_time, l.jerk_max))
    /\ OneAppended(Cursor(l.segment, i),
                   add_segment_incr_jerk(Cursor(l.segment, i), l.jerk_time, l.jerk_max))
    /\ OneAppended(Cursor(l.segment, i),
                   add_segment_decr_jerk(Cursor(l.segment, i), l.jerk_time, l.jerk_max))

\* the cursors at the end of the three phases, each started at its base
\* index: num_segs or seg = 1 (acceleration), 8 (velocity change, as empty
\* segments and as a ramp) and 15 (cruise segment and deceleration)
PhaseCursors(l, p) ==
    /\ init(l).num_segs = SEG_INIT + 1
    /\ add_accel(Cursor(l.segment, SEG_INIT + 1), l.jerk_time, p).index
           = SEG_ACCEL_END + 1
    /\ add_empty(Cursor(l.segment, SEG_ACCEL_END + 1)).index = SEG_CHANGE_END + 1
    /\ add_accel(Cursor(l.segment, SEG_ACCEL_END + 1), l.jerk_time, p).index
           = SEG_CHANGE_END + 1
    /\ add_decel(add_segment_const_jerk(Cursor(l.segment, SEG_CONST), 0, 0),
                 l.jerk_time, p).index = segments_max

\* C26: in every operation sequence every write to the segment table uses
\* an index in 0..22 and every builder read of the previous entry uses an
\* index >= 0: each build cursor starts at its phase's base index and is
\* advanced by exactly one per appended segment, ending at 8, 15 or 23 for
\* the acceleration, velocity-change and deceleration phases; the table
\* keeps its 23 entries and num_segs is 1 or 23 after every operation.
\* (The builders are called only on a leg whose jerk_time is positive.)
C26_CursorsInTable ==
    /\ is_positive(leg.jerk_time) =>
          /\ \A i \in 1 .. SEG_DECEL_END : BuildersAppendOne(leg, i)
          /\ PhaseCursors(leg, TrackPath(leg))
    /\ OneAppended(Cursor(leg.segment, SEG_INIT),
                   add_segment(Cursor(leg.segment, SEG_INIT), 0, CONSTANT_JERK, 0, 0, 0, 0))
    /\ DOMAIN leg.segment = SegIndex
    /\ leg.num_segs \in {SEG_INIT + 1, segments_max}

\* a built leg whose acceleration and deceleration ramps were written again
\* by set_origin_speed_max through its local cursor
C26_Witness ==
    /\ out.op = "set_origin_speed_max"
    /\ leg.num_segs = segments_max
    /\ leg.segment[SEG_INIT].end_vel > 0
    /\ out.ret[1] = leg.segment[SEG_INIT].end_vel
    /\ leg.segment[SEG_ACCEL_END].end_time > 0

\* a call of set_speed_max on a fully built leg that is braking
SpeedWhileBraking ==
    /\ Calls("set_speed_max")
    /\ leg.num_segs = segments_max
    /\ leg.time >= leg.segment[SEG_CONST].end_time

\* of the leg, at most vel_max differs between l and m
OnlySpeedLimitDiffers(l, m) == m = [l EXCEPT !.vel_max = m.vel_max]

\* C29 as stated: set_speed_max called on a fully built leg whose time has
\* reached or passed the end of the cruise segment leaves all 23 segments,
\* time and num_segs unchanged; only the stored vel_max takes the new value.
C29_BrakingTakesNewSpeed ==
    [][SpeedWhileBraking =>
           /\ OnlySpeedLimitDiffers(leg, leg')
           /\ leg'.vel_max = ResolvedSpeed(leg, out'.arg)]_vars

\* C29: set_speed_max called on a fully built leg whose time has reached or
\* passed the end of the cruise segment leaves all 23 segments, time and
\* num_segs unchanged; only the stored vel_max takes the new value, unless
\* the new speed along the track is zero, in which case vel_max is kept too.
C29_BrakingNotReplanned ==
    [][SpeedWhileBraking =>
           /\ OnlySpeedLimitDiffers(leg, leg')
           /\ leg'.vel_max = IF is_zero(ResolvedSpeed(leg, out'.arg))
                             THEN leg.vel_max
                             ELSE ResolvedSpeed(leg, out'.arg)]_vars

\* a leg on its deceleration ramp, not yet finished, whose speed limit
\* set_speed_max has just changed
C29_Witness ==
    /\ out.op = "set_speed_max"
    /\ leg.num_segs = segments_max
    /\ leg.time > leg.segment[SEG_CONST].end_time
    /\ leg.time < leg.segment[SEG_DECEL_END].end_time
    /\ leg.vel_max = Num(4)
    /\ leg.segment[SEG_CONST].end_vel < Num(3)

\* C27: once advance_target_along_track has returned true for a leg, the
\* next call on the same three legs (dt >= 0, no calculate_track and no
\* speed retargeting in between) returns true as well, and so does every
\* later one.
C27_ReturnStaysTrue ==
    [][(AfterAdvance /\ out.ret[2] /\ Calls("advance_target_along_track"))
           => out'.ret[2]]_vars

\* a call that returns true for built legs by the hand-over, this leg not
\* being finished, after a call that had returned true already
C27_Witness ==
    /\ AfterAdvance
    /\ out.ret[2]
    /\ ~finished(leg)
    /\ leg.num_segs = segments_max
    /\ next_leg.num_segs = segments_max
    /\ out.arg[3].time # 0
    /\ out.arg[3].time >= get_time_remaining(out.arg[2])

\* ------------------------------------------------------------------------
\* The state machine of a leg stepped until its end (specification
\* SpecLive): the legs are planned, then advance_target_along_track is
\* called on every tick of the navigation loop, with no retargeting, until
\* it returns true
\* ------------------------------------------------------------------------

\* calls after which the longest leg has ended with the shortest step
MaxLiveSteps == 10

\* the last call of advance_target_along_track returned true
ReturnedTrue == AfterAdvance /\ out.ret[2]

LiveAdvanceTargetAlongTrack ==
    \E wp_radius \in WpRadii, fast_waypoint \in BOOLEAN, dt \in AdvanceSteps, pva \in StartPva :
        /\ ops < MaxLiveSteps
        /\ ~ReturnedTrue
        /\ AdvancedTo(<<prev_leg, leg, next_leg, wp_radius, fast_waypoint, dt, pva>>,
                      advance_target_along_track(leg, prev_leg, next_leg, wp_radius,
                                                 fast_waypoint, dt, pva))

NextLive ==
    \/ CalculateTrackPrevLeg
    \/ CalculateTrackLeg
    \/ CalculateTrackNextLeg
    \/ SetDestinationSpeedMaxLeg
    \/ SetOriginSpeedMaxNextLeg
    \/ LiveAdvanceTargetAlongTrack

\* a step of NextLive that counts a call: LiveAdvanceTargetAlongTrack is the
\* only action that changes ops, and it is enabled exactly when the two
\* guards hold
CallMade == ops < MaxLiveSteps /\ ~ReturnedTrue /\ ops' = ops + 1

\* the navigation loop calls advance_target_along_track on every tick: a
\* call that can be made is made
SpecLive == InitAdvance /\ [][NextLive]_vars /\ WF_ops(CallMade)

\* C28: for a fully built leg with a finite end time, calling
\* advance_target_along_track again and again with dt > 0 and no retargeting
\* eventually returns true, whether or not corner cutting is allowed and
\* whether or not the blend into next_leg is accepted.
C28_EventuallyReturnsTrue ==
    (leg.num_segs = segments_max /\ leg.time = 0) ~> ReturnedTrue

\* the leg has been stepped through its whole length, past its end, with
\* the blend into next_leg never started, and the call has returned true
C28_Witness ==
    /\ ReturnedTrue
    /\ leg.num_segs = segments_max
    /\ finished(leg)
    /\ ops >= 3
    /\ next_leg.time = 0
    /\ next_leg.num_segs = segments_max

====
